---- MODULE Spec2Model ----
(***************************************************************************)
(* Verification model of json2mermaid's transition-extraction and graph    *)
(* engine: utils/loaders.py (load_intents), utils/validators.py (redirect  *)
(* validation, cycle detection), utils/analyzers.py (transition            *)
(* extraction, first_pass, second_pass, identifier resolution),            *)
(* utils/graph_analyzer.py (build_graph, depth and component analytics),   *)
(* utils/risk_analyzer.py (risk objects, risk analysis and summary) and    *)
(* the external-target computation of utils/multi_format_exporter.py.      *)
(*                                                                         *)
(* The specifications of the module:                                       *)
(*   SpecCycle    detect_circular_redirects, one DFS step per action;      *)
(*                SpecCycleFair adds weak fairness of the next step        *)
(*   SpecExtract  _extract_transitions / second_pass on one intent record  *)
(*   SpecGraph    run_all_validations -> first_pass -> build_graph ->      *)
(*                exporter external targets, over a small corpus           *)
(*   SpecResolve  build_intent_mappings and resolve_target_id              *)
(*   SpecAnalytics calculate_graph_depth, find_isolated_subgraphs and the  *)
(*                filter of analyze_graph_structure, on a built graph      *)
(*   SpecIntentRisk  add_risk calls on one IntentRisk object               *)
(*   SpecRisk     analyze_intent_risks and generate_risk_summary           *)
(*   SpecLoad     load_intents on one file, one line per action            *)
(***************************************************************************)
EXTENDS Integers, Sequences, FiniteSets, TLC

VARIABLES
    \* ---- SpecCycle: detect_circular_redirects ----
    redirect_map,   \* the adjacency map: [keys: insertion-ordered keys, tg: key -> targets]
    cpc,            \* "idle" | "run" | "done"
    start,          \* index into redirect_map.keys() of the next start_node
    stack,          \* call stack of dfs frames [node, path, i]
    visited,        \* the visited set of the current traversal
    cycles,         \* the cycles list
    \* ---- SpecExtract: one intent through _extract_transitions and the passes ----
    xintent,        \* the intent record (dict: present key -> value)
    xpc,            \* "idle" | "start" | "extracted" | "classified" | "done" | "raised"
    xresult,        \* outcome of _extract_transitions(xintent)
    all_data,       \* outcome of first_pass([xintent]), subtype set by second_pass
    \* ---- SpecGraph: run_all_validations -> first_pass -> build_graph -> exporter ----
    intents,        \* the corpus: list of intent records
    gpc,            \* "idle" | "start" | "validated" | "analyzed" | "built" | "exported" | "raised"
    raised_in,      \* the function that raised, "" if none
    transitions,    \* first_pass(intents)['transitions']
    graph,          \* build_graph(...)
    external_targets, \* the exporters' external_targets set
    redirects,      \* the other fields of the result of validate_redirects
    \* ---- SpecResolve: build_intent_mappings and resolve_target_id ----
    rcorpus,        \* the intents the mappings are built from
    mappings,       \* the mappings dict (present key -> value)
    rpc,            \* "idle" | "start" | "mapped" | "resolved"
    rtarget,        \* the target handed to resolve_target_id
    rresult,        \* what resolve_target_id returned
    \* ---- SpecAnalytics: the analytics of analyze_graph_structure on a graph ----
    agraph,         \* the graph build_graph returned: nodes, edges, entry_points
    apc,            \* "idle" | "built" | "depth" | "components" | "done"
    depth_info,     \* calculate_graph_depth(agraph), avg_depth in hundredths
    components,     \* find_isolated_subgraphs(agraph): list of sets
    isolated,       \* the isolated_subgraphs of the result
    is_connected,   \* the is_connected of the result
    \* ---- SpecIntentRisk: one IntentRisk object under add_risk ----
    irisk,          \* the IntentRisk object: intent_id, risks (the risk types), severity
    ipc,            \* "idle" | "live"
    \* ---- SpecRisk: analyze_intent_risks and generate_risk_summary on a corpus ----
    risk_intents,   \* the intents given to analyze_intent_risks
    validation_results,\* the findings of the validators
    risks,          \* intent_id -> IntentRisk, in insertion order
    summary,        \* the result of generate_risk_summary
    kpc,            \* "idle" | "start" | "analyzed" | "summarized"
    \* ---- SpecLoad: load_intents on one file ----
    lfile,          \* the file: whether it exists, a JSON array of objects or lines of text
    max_lines,      \* the max_lines argument
    total_lines,    \* the lines read by the line-by-line loop
    loaded,         \* the intents list, each record as <<line, position in the line>>
    errors,         \* the counters empty, fixed, skipped, success
    metadata,       \* the metadata returned
    lpc             \* "idle" | "start" | "lines" | "stopped" | "returned"

cycleRun == <<cpc, start, stack, visited, cycles>>
extractVars == <<xintent, xpc, xresult, all_data>>
graphRun ==
    <<intents, gpc, raised_in, transitions, graph, external_targets, redirects>>
resolveRun == <<rcorpus, mappings, rpc, rtarget, rresult>>
analyticsRun == <<agraph, apc, depth_info, components, isolated, is_connected>>
riskObject == <<irisk, ipc>>
riskRun == <<risk_intents, validation_results, risks, summary, kpc>>
loadRun == <<lfile, max_lines, total_lines, loaded, errors, metadata, lpc>>
vars ==
    <<redirect_map, cycleRun, extractVars, graphRun, resolveRun, analyticsRun,
      riskObject, riskRun, loadRun>>

\* the variables of the other specifications
besidesCycle == <<extractVars, graphRun, resolveRun, analyticsRun, riskObject, riskRun, loadRun>>
besidesExtract ==
    <<redirect_map, cycleRun, graphRun, resolveRun, analyticsRun, riskObject, riskRun, loadRun>>
besidesGraph == <<cycleRun, extractVars, resolveRun, analyticsRun, riskObject, riskRun, loadRun>>
besidesResolve ==
    <<redirect_map, cycleRun, extractVars, graphRun, analyticsRun, riskObject, riskRun, loadRun>>
besidesAnalytics ==
    <<redirect_map, cycleRun, extractVars, graphRun, resolveRun, riskObject, riskRun, loadRun>>
besidesIntentRisk ==
    <<redirect_map, cycleRun, extractVars, graphRun, resolveRun, analyticsRun, riskRun, loadRun>>
besidesRisk ==
    <<redirect_map, cycleRun, extractVars, graphRun, resolveRun, analyticsRun, riskObject, loadRun>>
besidesLoad ==
    <<redirect_map, cycleRun, extractVars, graphRun, resolveRun, analyticsRun, riskObject, riskRun>>

(***************************************************************************)
(* Generic helpers                                                         *)
(***************************************************************************)
Range(s) == {s[i] : i \in 1..Len(s)}

\* x in list (Python's `in` on a list)
InList(x, s) == \E i \in 1..Len(s) : s[i] = x

\* list.index(x): the first position of x
IndexOf(x, s) == CHOOSE i \in 1..Len(s) : s[i] = x /\ \A j \in 1..(i-1) : s[j] # x

\* all sequences over S of length at most n
SeqsUpTo(S, n) == UNION {[1..k -> S] : k \in 0..n}

\* all sequences over S without repetition of length at most n
InjSeqsUpTo(S, n) ==
    {s \in SeqsUpTo(S, n) : \A i, j \in 1..Len(s) : i # j => s[i] # s[j]}

(***************************************************************************)
(* Python values.  A value of the untyped intent records is a tagged       *)
(* record: None, a NaN float, an int, a str, a list or a dict.  A str is   *)
(* the sequence of its whitespace-separated words (single spaces, no       *)
(* leading or trailing blank); a dict is the function from its present     *)
(* keys to their values, so an absent key is a key outside DOMAIN.         *)
(***************************************************************************)
PyNone == [k |-> "none"]
NaN == [k |-> "nan"]
PyInt(n) == [k |-> "int", n |-> n]
Str(words) == [k |-> "str", s |-> words]
List(items) == [k |-> "list", l |-> items]
Dict(d) == [k |-> "dict", d |-> d]

EmptyStr == Str(<<>>)
EmptyList == List(<<>>)
EmptyDict == Dict(<<>>)
Word(w) == Str(<<w>>)

\* d.get(key, default) on the key -> value function of a dict
DictGet(d, key, default) == IF key \in DOMAIN d THEN d[key] ELSE default

\* d[key] = v
DictSet(d, key, v) == (key :> v) @@ d

\* bool(value): None, "", 0, [] and {} are falsy; a NaN float is truthy
Truthy(v) ==
    CASE v.k = "none" -> FALSE
      [] v.k = "nan"  -> TRUE
      [] v.k = "int"  -> v.n # 0
      [] v.k = "str"  -> v.s # <<>>
      [] v.k = "list" -> v.l # <<>>
      [] v.k = "dict" -> DOMAIN v.d # {}

\* isinstance(value, str) / isinstance(value, dict)
IsStr(v) == v.k = "str"
IsDict(v) == v.k = "dict"

\* len(value) is defined (list, str, dict); otherwise len raises TypeError
HasLen(v) == v.k \in {"list", "str", "dict"}

\* len(value) of a list, or of a non-empty/empty str or dict (zero or not)
PyLen(v) ==
    CASE v.k = "list" -> Len(v.l)
      [] v.k = "str"  -> Len(v.s)
      [] v.k = "dict" -> Cardinality(DOMAIN v.d)

\* str(value) of a scalar, as words
PyStr(v) ==
    CASE v.k = "str"  -> v.s
      [] v.k = "int"  -> <<ToString(v.n)>>
      [] v.k = "none" -> <<"None">>
      [] v.k = "nan"  -> <<"nan">>

\* string concatenation a + b on words: the last word of a and the first
\* word of b become one word
Glue(a, b) ==
    IF a = <<>> THEN b
    ELSE IF b = <<>> THEN a
    ELSE SubSeq(a, 1, Len(a) - 1) \o <<a[Len(a)] \o b[1]>> \o Tail(b)

\* a slip of _safe_list: a non-list value wrapped into a one-element list
SafeListWrapping(value) ==
    IF value.k = "none" THEN EmptyList
    ELSE IF value.k = "list" THEN value
    ELSE List(<<value>>)

\* _safe_list(value): NaN, None and every non-list become the default []
SafeList(value) ==
    IF value.k = "nan" THEN EmptyList
    ELSE IF value.k = "none" THEN EmptyList
    ELSE IF value.k = "list" THEN value
    ELSE EmptyList

\* _safe_str(value, default)
SafeStr(value, default) ==
    IF value.k = "none" THEN default
    ELSE IF value.k = "nan" THEN default
    ELSE IF value.k = "str" THEN value
    ELSE Str(PyStr(value))

\* the outcome of a call: a returned value, or the exception it raised
Ok(val) == [err |-> "none", val |-> val]
Raise(e) == [err |-> e, val |-> <<>>]

\* the variables of a specification that is not running keep these values
IdleCycle ==
    /\ cpc = "idle" /\ start = 1 /\ stack = <<>> /\ visited = {} /\ cycles = <<>>

IdleExtract ==
    /\ xintent = <<>> /\ xpc = "idle" /\ xresult = Ok(<<>>) /\ all_data = Ok(<<>>)

IdleGraph ==
    /\ intents = <<>> /\ gpc = "idle" /\ raised_in = "" /\ transitions = <<>>
    /\ graph = <<>> /\ external_targets = {} /\ redirects = <<>>

IdleResolve ==
    /\ rcorpus = <<>> /\ mappings = <<>> /\ rpc = "idle" /\ rtarget = PyNone
    /\ rresult = PyNone

IdleAnalytics ==
    /\ agraph = <<>> /\ apc = "idle" /\ depth_info = <<>> /\ components = <<>>
    /\ isolated = <<>> /\ is_connected = FALSE

IdleIntentRisk ==
    irisk = <<>> /\ ipc = "idle"

IdleRisk ==
    /\ risk_intents = <<>> /\ validation_results = <<>> /\ risks = <<>>
    /\ summary = <<>> /\ kpc = "idle"

IdleLoad ==
    /\ lfile = <<>> /\ max_lines = 0 /\ total_lines = 0 /\ loaded = <<>>
    /\ errors = <<>> /\ metadata = <<>> /\ lpc = "idle"

(***************************************************************************)
(* Answer text and its regular expressions (utils/analyzers.py).  The      *)
(* patterns are matched on words: `CMD\s+(\S+)` matches a word ending in   *)
(* CMD followed by another word, which it captures whole; re.findall       *)
(* resumes after the captured word.  Letter case and suffixes are tables   *)
(* over the words the model uses.                                          *)
(***************************************************************************)
\* str.lower() of a word
Lower(w) ==
    CASE w = "REDIRECT_TO_INTENT" -> "redirect_to_intent"
      [] w = "GOTO"               -> "goto"
      [] w = "JUMP_TO"            -> "jump_to"
      [] w = "xJUMP_TO"           -> "xjump_to"
      [] w = "/GOTO"              -> "/goto"
      [] w = "CALL_INTENT"        -> "call_intent"
      [] w = "Main"               -> "main"
      [] w = "None"               -> "none"
      [] OTHER                    -> w

\* word.endswith(suffix), for the proper suffixes among the model's words
EndsWith(w, suffix) ==
    \/ w = suffix
    \/ <<w, suffix>> \in {<<"xJUMP_TO", "JUMP_TO">>, <<"xjump_to", "jump_to">>,
                          <<"/goto", "goto">>, <<"/GOTO", "GOTO">>}

\* pattern1 r'REDIRECT_TO_INTENT\s+(\S+)', no flag: the command word as written
IsRedirectCmd(w) == EndsWith(w, "REDIRECT_TO_INTENT")

\* pattern2 r'(?:^|\s)GOTO\s+(\S+)', re.IGNORECASE: the whole word is goto
IsGotoCmd(w) == Lower(w) = "goto"

\* pattern3 r'JUMP_TO\s+(\S+)', re.IGNORECASE
IsJumpCmd(w) == EndsWith(Lower(w), "jump_to")

\* pattern4 r'/goto\s+(\S+)', re.IGNORECASE
IsSlashGotoCmd(w) == EndsWith(Lower(w), "/goto")

\* pattern5 r'CALL_INTENT\s+(\S+)', re.IGNORECASE
IsCallCmd(w) == EndsWith(Lower(w), "call_intent")

RECURSIVE FindAll(_, _, _)
\* re.findall(pattern, text) from word i on; cmd is the pattern's number
FindAll(words, i, cmd) ==
    IF i >= Len(words) THEN <<>>
    ELSE IF \/ cmd = 1 /\ IsRedirectCmd(words[i])
            \/ cmd = 2 /\ IsGotoCmd(words[i])
            \/ cmd = 3 /\ IsJumpCmd(words[i])
            \/ cmd = 4 /\ IsSlashGotoCmd(words[i])
            \/ cmd = 5 /\ IsCallCmd(words[i])
         THEN <<Word(words[i + 1])>> \o FindAll(words, i + 2, cmd)
         ELSE FindAll(words, i + 1, cmd)

\* _extract_redirect_from_text(answer_text)
ExtractRedirectFromText(answer_text) ==
    IF ~Truthy(answer_text) THEN Ok(<<>>)
    ELSE IF ~IsStr(answer_text) THEN Raise("TypeError")
    ELSE Ok(FindAll(answer_text.s, 1, 1) \o FindAll(answer_text.s, 1, 2)
            \o FindAll(answer_text.s, 1, 3) \o FindAll(answer_text.s, 1, 4)
            \o FindAll(answer_text.s, 1, 5))

\* the label of a word "[label](type:action", the opening of a markdown button
MdLabel(w) == IF w = "[L](type:action" THEN <<"L">> ELSE IF w = "[M](type:action" THEN <<"M">> ELSE <<>>
IsMdOpen(w) == MdLabel(w) # <<>>

\* the action id of a closing word "action:<id>)"
MdActionId(w) == IF w = "action:B)" THEN <<"B">> ELSE IF w = "action:C)" THEN <<"C">> ELSE <<>>
IsMdClose(w) == MdActionId(w) # <<>>

RECURSIVE FindButtons(_, _)
\* re.findall(r'\[([^\]]+)\]\(type:action\s+action:([^\)]+)\)', text) from word
\* i on, with text.strip() and action_id.strip() applied; "action: )" closes a
\* button whose action id strips to the empty string
FindButtons(words, i) ==
    IF i >= Len(words) THEN <<>>
    ELSE IF IsMdOpen(words[i]) /\ IsMdClose(words[i + 1])
         THEN <<[text |-> Str(MdLabel(words[i])), action_id |-> Str(MdActionId(words[i + 1]))]>>
                 \o FindButtons(words, i + 2)
    ELSE IF IsMdOpen(words[i]) /\ i + 2 <= Len(words)
            /\ words[i + 1] = "action:" /\ words[i + 2] = ")"
         THEN <<[text |-> Str(MdLabel(words[i])), action_id |-> EmptyStr]>>
                 \o FindButtons(words, i + 3)
    ELSE FindButtons(words, i + 1)

\* _extract_buttons_from_markdown(answer_text)
ExtractButtonsFromMarkdown(answer_text) ==
    IF ~Truthy(answer_text) THEN Ok(<<>>)
    ELSE IF ~IsStr(answer_text) THEN Raise("TypeError")
    ELSE Ok(FindButtons(answer_text.s, 1))

RECURSIVE JoinValues(_, _)
\* ','.join(str(v) for v in values) from item i on
JoinValues(values, i) ==
    IF i > Len(values) THEN <<>>
    ELSE IF i = Len(values) THEN PyStr(values[i])
    ELSE Glue(Glue(PyStr(values[i]), <<",">>), JoinValues(values, i + 1))

RECURSIVE FormatSlots(_, _, _)
\* the for loop of _format_slot_condition from slot i on; conditions joined
\* by ' AND ' so far.  `values` is a list or a scalar here: the slicing of a
\* str or dict `values` is outside the model's inputs
FormatSlots(slots, i, joined) ==
    IF i > Len(slots) THEN Ok(Str(joined))
    ELSE IF ~IsDict(slots[i]) THEN Raise("AttributeError")
    ELSE LET slot_id == DictGet(slots[i].d, "slot_id", EmptyStr)
             values == DictGet(slots[i].d, "values", EmptyList)
         IN  IF Truthy(slot_id) /\ Truthy(values)
             THEN IF values.k \in {"nan", "int"} THEN Raise("TypeError")   \* values[:2]
                  ELSE LET val_str == Glue(JoinValues(SubSeq(values.l, 1, IF Len(values.l) < 2 THEN Len(values.l) ELSE 2), 1),
                                           IF Len(values.l) > 2 THEN <<"...">> ELSE <<>>)
                           cond == Glue(Glue(PyStr(slot_id), <<"=">>), val_str)
                       IN  FormatSlots(slots, i + 1,
                               IF joined = <<>> THEN cond ELSE joined \o <<"AND">> \o cond)
             ELSE FormatSlots(slots, i + 1, joined)

\* _format_slot_condition(slots), slots a list
FormatSlotCondition(slots) ==
    IF slots.l = <<>> THEN Ok(EmptyStr) ELSE FormatSlots(slots.l, 1, <<>>)

(***************************************************************************)
(* _extract_transitions (utils/analyzers.py).  Every loop is a recursion   *)
(* over the list that carries the transitions appended so far; a raised    *)
(* exception ends the call and discards them.                              *)
(***************************************************************************)
\* Transition(source_id, target_id, transition_type, condition=None)
Transition(source_id, target_id, transition_type, condition) ==
    [source_id |-> source_id, target_id |-> target_id,
     transition_type |-> transition_type, condition |-> condition]

\* `if x and isinstance(x, str)`: the guard of rules 1, 2, 3a, 4 and 5
IsTarget(x) == Truthy(x) /\ IsStr(x)

\* `if target_id:` / `if action_id:`: the guard of rules 3d and 3e, which
\* tests truth only and not the type
IsButtonTarget(x) == Truthy(x)

\* `slot_condition if slot_condition else None`
CondOrNone(c) == IF Truthy(c) THEN c ELSE PyNone

RECURSIVE TextRedirects(_, _, _, _)
\* 3b: one text_redirect per target found in the answer text
TextRedirects(intent_id, targets, i, slot_condition) ==
    IF i > Len(targets) THEN <<>>
    ELSE <<Transition(intent_id, targets[i], "text_redirect", CondOrNone(slot_condition))>>
            \o TextRedirects(intent_id, targets, i + 1, slot_condition)

RECURSIVE MarkdownButtons(_, _, _)
\* 3c: one button_action per markdown button, condition f"button: {text}"
MarkdownButtons(intent_id, btns, i) ==
    IF i > Len(btns) THEN <<>>
    ELSE <<Transition(intent_id, btns[i].action_id, "button_action",
                      Str(<<"button:">> \o btns[i].text.s))>>
            \o MarkdownButtons(intent_id, btns, i + 1)

RECURSIVE ButtonRedirects(_, _, _)
\* 3d: structured buttons with action.type == 'REDIRECT_TO_INTENT'
ButtonRedirects(intent_id, buttons, i) ==
    IF i > Len(buttons) THEN <<>>
    ELSE LET button == buttons[i]
             action == IF IsDict(button) THEN DictGet(button.d, "action", EmptyDict) ELSE PyNone
             target_id == IF IsDict(action) THEN DictGet(action.d, "intent_id", EmptyStr) ELSE PyNone
         IN  (IF /\ IsDict(button) /\ IsDict(action)
                 /\ DictGet(action.d, "type", EmptyStr) = Word("REDIRECT_TO_INTENT")
                 /\ IsButtonTarget(target_id)
              THEN <<Transition(intent_id, target_id, "button_redirect", PyNone)>>
              ELSE <<>>)
             \o ButtonRedirects(intent_id, buttons, i + 1)

RECURSIVE ActionRedirects(_, _, _)
\* 3e: actions with an action_id, condition f"action: {action_text}"
ActionRedirects(intent_id, actions, i) ==
    IF i > Len(actions) THEN <<>>
    ELSE LET action == actions[i]
             action_id == IF IsDict(action) THEN DictGet(action.d, "action_id", EmptyStr) ELSE PyNone
             action_text == IF IsDict(action) THEN DictGet(action.d, "action_text", EmptyStr) ELSE PyNone
         IN  (IF IsDict(action) /\ IsButtonTarget(action_id)
              THEN <<Transition(intent_id, action_id, "action_redirect",
                                IF Truthy(action_text)
                                THEN Str(<<"action:">> \o PyStr(action_text))
                                ELSE PyNone)>>
              ELSE <<>>)
             \o ActionRedirects(intent_id, actions, i + 1)

\* rule 3 for one answer (a dict): 3a, 3b, 3c, 3d, 3e in this order
AnswerTransitions(intent_id, answer) ==
    LET answer_text == DictGet(answer.d, "answer", EmptyStr)
        slots == SafeList(DictGet(answer.d, "slots", EmptyList))
        slot_condition == FormatSlotCondition(slots)
        answer_redirect == DictGet(answer.d, "redirect_to", PyNone)
        text_redirects == ExtractRedirectFromText(answer_text)
        markdown_buttons == ExtractButtonsFromMarkdown(answer_text)
        buttons == SafeList(DictGet(answer.d, "buttons", EmptyList))
        actions == SafeList(DictGet(answer.d, "actions", EmptyList))
    IN  IF slot_condition.err # "none" THEN Raise(slot_condition.err)
        ELSE IF text_redirects.err # "none" THEN Raise(text_redirects.err)
        ELSE IF markdown_buttons.err # "none" THEN Raise(markdown_buttons.err)
        ELSE Ok((IF IsTarget(answer_redirect)
                 THEN <<Transition(intent_id, answer_redirect, "answer_redirect",
                                   CondOrNone(slot_condition.val))>>
                 ELSE <<>>)
                \o TextRedirects(intent_id, text_redirects.val, 1, slot_condition.val)
                \o MarkdownButtons(intent_id, markdown_buttons.val, 1)
                \o ButtonRedirects(intent_id, buttons.l, 1)
                \o ActionRedirects(intent_id, actions.l, 1))

RECURSIVE AnswersTransitions(_, _, _, _)
\* rule 3: `for answer in answers`, skipping the entries that are no dict
AnswersTransitions(intent_id, answers, i, acc) ==
    IF i > Len(answers) THEN Ok(acc)
    ELSE IF ~IsDict(answers[i]) THEN AnswersTransitions(intent_id, answers, i + 1, acc)
    ELSE LET r == AnswerTransitions(intent_id, answers[i])
         IN  IF r.err # "none" THEN Raise(r.err)
             ELSE AnswersTransitions(intent_id, answers, i + 1, acc \o r.val)

RECURSIVE ConditionRedirects(_, _, _)
\* rule 4, one filler: then_redirect before else_redirect for each condition
ConditionRedirects(intent_id, conditions, i) ==
    IF i > Len(conditions) THEN <<>>
    ELSE LET condition == conditions[i]
             then_redirect == IF IsDict(condition) THEN DictGet(condition.d, "then_redirect", PyNone) ELSE PyNone
             else_redirect == IF IsDict(condition) THEN DictGet(condition.d, "else_redirect", PyNone) ELSE PyNone
         IN  (IF IsDict(condition) /\ IsTarget(then_redirect)
              THEN <<Transition(intent_id, then_redirect, "conditional_redirect", PyNone)>>
              ELSE <<>>)
             \o (IF IsDict(condition) /\ IsTarget(else_redirect)
                 THEN <<Transition(intent_id, else_redirect, "conditional_redirect", PyNone)>>
                 ELSE <<>>)
             \o ConditionRedirects(intent_id, conditions, i + 1)

RECURSIVE FillerRedirects(_, _, _)
\* rule 4: `for filler in slot_fillers`, skipping the entries that are no dict
FillerRedirects(intent_id, slot_fillers, i) ==
    IF i > Len(slot_fillers) THEN <<>>
    ELSE (IF IsDict(slot_fillers[i])
          THEN ConditionRedirects(intent_id,
                   SafeList(DictGet(slot_fillers[i].d, "conditions", EmptyList)).l, 1)
          ELSE <<>>)
         \o FillerRedirects(intent_id, slot_fillers, i + 1)

\* a slip of the rule order: rule 5 applied before rule 4
ExtractMatchBeforeConditions(intent) ==
    LET intent_id == DictGet(intent, "intent_id", Word("unknown"))
        redirect_to == DictGet(intent, "redirect_to", PyNone)
        fallback_intent == DictGet(intent, "fallback_intent", PyNone)
        answers == SafeList(DictGet(intent, "answers", EmptyList))
        slot_fillers == SafeList(DictGet(intent, "slot_fillers", EmptyList))
        matched_intent == DictGet(intent, "matched_intent_id", PyNone)
        head == (IF IsTarget(redirect_to)
                 THEN <<Transition(intent_id, redirect_to, "direct_redirect", PyNone)>>
                 ELSE <<>>)
                \o (IF IsTarget(fallback_intent)
                    THEN <<Transition(intent_id, fallback_intent, "fallback", PyNone)>>
                    ELSE <<>>)
        from_answers == AnswersTransitions(intent_id, answers.l, 1, head)
    IN  IF from_answers.err # "none" THEN Raise(from_answers.err)
        ELSE Ok(from_answers.val
                \o (IF IsTarget(matched_intent)
                    THEN <<Transition(intent_id, matched_intent, "intent_match", PyNone)>>
                    ELSE <<>>)
                \o FillerRedirects(intent_id, slot_fillers.l, 1))

\* _extract_transitions(intent): rules 1, 2, 3, 4, 5 in this order
ExtractTransitions(intent) ==
    LET intent_id == DictGet(intent, "intent_id", Word("unknown"))
        redirect_to == DictGet(intent, "redirect_to", PyNone)
        fallback_intent == DictGet(intent, "fallback_intent", PyNone)
        answers == SafeList(DictGet(intent, "answers", EmptyList))
        slot_fillers == SafeList(DictGet(intent, "slot_fillers", EmptyList))
        matched_intent == DictGet(intent, "matched_intent_id", PyNone)
        head == (IF IsTarget(redirect_to)
                 THEN <<Transition(intent_id, redirect_to, "direct_redirect", PyNone)>>
                 ELSE <<>>)
                \o (IF IsTarget(fallback_intent)
                    THEN <<Transition(intent_id, fallback_intent, "fallback", PyNone)>>
                    ELSE <<>>)
        from_answers == AnswersTransitions(intent_id, answers.l, 1, head)
    IN  IF from_answers.err # "none" THEN Raise(from_answers.err)
        ELSE Ok(from_answers.val
                \o FillerRedirects(intent_id, slot_fillers.l, 1)
                \o (IF IsTarget(matched_intent)
                    THEN <<Transition(intent_id, matched_intent, "intent_match", PyNone)>>
                    ELSE <<>>))

(***************************************************************************)
(* first_pass and second_pass (utils/analyzers.py)                         *)
(***************************************************************************)
\* `kw in text` for a keyword without blanks: some word of the text contains
\* it.  The table lists, for the lower-case words of the model, the keywords
\* of first_pass and second_pass each contains.
WordContains(w, kw) ==
    \/ w = kw
    \/ <<w, kw>> \in {<<"cc_regexp_main", "main">>, <<"cc_regexp_main", "regexp_main">>,
                      <<"regexp_main", "main">>, <<"cc_match", "match">>,
                      <<"apple", "app">>, <<"fallback_main", "fallback">>,
                      <<"fallback_main", "main">>}

Contains(words, kw) == \E i \in 1..Len(words) : WordContains(words[i], kw)

\* [w.lower() for w in words]
LowerAll(words) == [i \in 1..Len(words) |-> Lower(words[i])]

\* a slip of the chain: the match rule tested before the main rule
IntentTypeMatchFirst(intent) ==
    LET record_type == LowerAll(PyStr(DictGet(intent, "record_type", EmptyStr)))
        title == LowerAll(PyStr(DictGet(intent, "title", EmptyStr)))
    IN  IF Contains(record_type, "match") THEN "match_intent"
        ELSE IF Contains(record_type, "main") \/ Contains(record_type, "regexp_main")
        THEN "main_intent"
        ELSE IF Contains(record_type, "viber") \/ Contains(record_type, "telegram")
        THEN "messenger_intent"
        ELSE IF Contains(title, "fallback") \/ Contains(title, "error")
        THEN "fallback_intent"
        ELSE "dialog_intent"

\* the if/elif chain of first_pass over record_type and title
IntentType(intent) ==
    LET record_type == LowerAll(PyStr(DictGet(intent, "record_type", EmptyStr)))
        title == LowerAll(PyStr(DictGet(intent, "title", EmptyStr)))
    IN  IF Contains(record_type, "main") \/ Contains(record_type, "regexp_main")
        THEN "main_intent"
        ELSE IF Contains(record_type, "match") THEN "match_intent"
        ELSE IF Contains(record_type, "viber") \/ Contains(record_type, "telegram")
        THEN "messenger_intent"
        ELSE IF Contains(title, "fallback") \/ Contains(title, "error")
        THEN "fallback_intent"
        ELSE "dialog_intent"

\* the key of the deduplication: (source_id, target_id, transition_type)
TransitionKey(t) == <<t.source_id, t.target_id, t.transition_type>>

RECURSIVE DedupBySourceAndTarget(_, _, _, _)
\* a slip of the deduplication key: (source_id, target_id) without the type
DedupBySourceAndTarget(all_transitions, i, seen, unique_transitions) ==
    IF i > Len(all_transitions) THEN unique_transitions
    ELSE IF <<all_transitions[i].source_id, all_transitions[i].target_id>> \in seen
         THEN DedupBySourceAndTarget(all_transitions, i + 1, seen, unique_transitions)
         ELSE DedupBySourceAndTarget(all_transitions, i + 1,
                  seen \cup {<<all_transitions[i].source_id, all_transitions[i].target_id>>},
                  Append(unique_transitions, all_transitions[i]))

RECURSIVE DedupPrepending(_, _, _, _)
\* a slip of the deduplication loop: insert(0, t) instead of append(t)
DedupPrepending(all_transitions, i, seen, unique_transitions) ==
    IF i > Len(all_transitions) THEN unique_transitions
    ELSE IF TransitionKey(all_transitions[i]) \in seen
         THEN DedupPrepending(all_transitions, i + 1, seen, unique_transitions)
         ELSE DedupPrepending(all_transitions, i + 1,
                  seen \cup {TransitionKey(all_transitions[i])},
                  <<all_transitions[i]>> \o unique_transitions)

RECURSIVE Dedup(_, _, _, _)
\* the deduplication loop of first_pass from transition i on
Dedup(all_transitions, i, seen, unique_transitions) ==
    IF i > Len(all_transitions) THEN unique_transitions
    ELSE IF TransitionKey(all_transitions[i]) \in seen
         THEN Dedup(all_transitions, i + 1, seen, unique_transitions)
         ELSE Dedup(all_transitions, i + 1, seen \cup {TransitionKey(all_transitions[i])},
                    Append(unique_transitions, all_transitions[i]))

RECURSIVE FirstPassLoop(_, _, _, _)
\* the loop of first_pass from intent i on: classifications is the dict
\* intent_id -> intent_type, all_transitions the concatenated extractions
FirstPassLoop(corpus, i, classifications, all_transitions) ==
    IF i > Len(corpus)
    THEN Ok([classifications |-> classifications,
             transitions |-> Dedup(all_transitions, 1, {}, <<>>)])
    ELSE LET intent_id == DictGet(corpus[i], "intent_id", Word("unknown"))
             r == ExtractTransitions(corpus[i])
         IN  IF r.err # "none" THEN Raise(r.err)
             ELSE FirstPassLoop(corpus, i + 1,
                      DictSet(classifications, intent_id,
                              [intent_type |-> IntentType(corpus[i]), subtype |-> PyNone]),
                      all_transitions \o r.val)

\* first_pass(intents): {'classifications': ..., 'transitions': unique_transitions}
FirstPass(corpus) == FirstPassLoop(corpus, 1, <<>>, <<>>)

\* subtype_keywords of second_pass in dict order; the Cyrillic keywords are
\* left out, the model's words being ASCII
SubtypeKeywords ==
    <<[subtype |-> "insurance", keywords |-> {}],
      [subtype |-> "loyalty", keywords |-> {}],
      [subtype |-> "personal_cabinet", keywords |-> {"lk"}],
      [subtype |-> "mobile_app", keywords |-> {"app"}],
      [subtype |-> "payment", keywords |-> {"payment"}]>>

RECURSIVE StrLowerAll(_, _)
\* the words of ' '.join(str(t).lower() for t in topics) from topic i on
StrLowerAll(topics, i) ==
    IF i > Len(topics) THEN <<>>
    ELSE LowerAll(PyStr(topics[i])) \o StrLowerAll(topics, i + 1)

RECURSIVE MatchSubtype(_, _, _)
\* the loop over subtype_keywords: the first subtype one of whose keywords
\* occurs in `combined`; it is assigned only `if intent_id in classifications`
MatchSubtype(combined, known, i) ==
    IF i > Len(SubtypeKeywords) THEN PyNone
    ELSE IF (\E kw \in SubtypeKeywords[i].keywords : Contains(combined, kw)) /\ known
         THEN Word(SubtypeKeywords[i].subtype)
         ELSE MatchSubtype(combined, known, i + 1)

\* the body of second_pass for one intent: the subtype it assigns (None: none)
SecondPassSubtype(intent, classifications) ==
    LET intent_id == DictGet(intent, "intent_id", EmptyStr)
        title == LowerAll(PyStr(DictGet(intent, "title", EmptyStr)))
        topics == SafeList(DictGet(intent, "topics", EmptyList))
        combined == title \o StrLowerAll(topics.l, 1)
    IN  MatchSubtype(combined, intent_id \in DOMAIN classifications, 1)

RECURSIVE SecondPassLoop(_, _, _)
\* the loop of second_pass from intent i on, over the classifications dict
SecondPassLoop(corpus, i, classifications) ==
    IF i > Len(corpus) THEN classifications
    ELSE LET intent_id == DictGet(corpus[i], "intent_id", EmptyStr)
             subtype == SecondPassSubtype(corpus[i], classifications)
         IN  SecondPassLoop(corpus, i + 1,
                 IF subtype # PyNone
                 THEN [classifications EXCEPT ![intent_id].subtype = subtype]
                 ELSE classifications)

\* second_pass(intents, all_data): all_data with the subtypes assigned
SecondPass(corpus, data) ==
    [data EXCEPT !.classifications = SecondPassLoop(corpus, 1, data.classifications)]

(***************************************************************************)
(* SpecExtract: one intent record, well-formed or malformed, through       *)
(* _extract_transitions, first_pass and second_pass.  The records are two  *)
(* base intents with one field replaced; answers lists hold up to          *)
(* MaxAnswers answers, each the rich answer with one entry replaced.       *)
(***************************************************************************)
MaxAnswers == 2     \* longest answers list of a generated intent

\* d with key removed / the dicts d with key set to a value of S
Without(d, key) == [f \in DOMAIN d \ {key} |-> d[f]]
Vary(d, key, S) == {DictSet(d, key, v) : v \in S} \cup {Without(d, key)}

\* malformed scalars: null, NaN, a number, the empty string
ScalarBad == {PyNone, NaN, PyInt(7), EmptyStr}
\* malformed lists: null, NaN, a str, a number, a dict
ListBad == {PyNone, NaN, Str(<<"GOTO", "B">>), PyInt(5), Dict([answer |-> Str(<<"GOTO", "B">>)])}

RichSlot == [slot_id |-> Word("s1"), values |-> List(<<Word("a"), Word("b"), Word("c")>>)]
SlotVariants ==
    {Dict(RichSlot), PyNone, NaN, Word("s")}
        \cup {Dict(d) : d \in Vary(RichSlot, "values", {PyNone, NaN, PyInt(5), EmptyList, List(<<PyInt(1)>>)})}
        \cup {Dict(d) : d \in Vary(RichSlot, "slot_id", {PyNone, NaN, EmptyStr})}
SlotLists ==
    {List(<<v>>) : v \in SlotVariants}
        \cup {List(<<Dict(RichSlot), Dict([slot_id |-> Word("s2"), values |-> List(<<Word("x")>>)])>>)}

RichButtonAction == [type |-> Word("REDIRECT_TO_INTENT"), intent_id |-> Word("D")]
ButtonVariants ==
    {PyNone, Word("b"), Dict([action |-> NaN]), Dict([action |-> PyNone]), EmptyDict}
        \cup {Dict([action |-> Dict(d)]) : d \in Vary(RichButtonAction, "intent_id", ScalarBad)}
        \cup {Dict([action |-> Dict(d)]) : d \in Vary(RichButtonAction, "type", {Word("URL"), NaN})}
ButtonLists ==
    {List(<<v>>) : v \in ButtonVariants}
        \cup {List(<<Dict([action |-> Dict(RichButtonAction)]),
                     Dict([action |-> Dict([type |-> Word("REDIRECT_TO_INTENT"), intent_id |-> Word("B")])])>>)}

RichAction == [action_id |-> Word("E"), action_text |-> Word("go")]
ActionVariants ==
    {PyNone, Word("a"), NaN}
        \cup {Dict(d) : d \in Vary(RichAction, "action_id", ScalarBad)}
        \cup {Dict(d) : d \in Vary(RichAction, "action_text", ScalarBad)}
ActionLists ==
    {List(<<v>>) : v \in ActionVariants}
        \cup {List(<<Dict(RichAction), Dict([action_id |-> Word("B")])>>)}

AnswerTexts ==
    {Str(<<"goto", "C">>), Str(<<"GOTO", "GOTO", "B">>), Str(<<"redirect_to_intent", "B">>),
     Str(<<"hello", "JUMP_TO">>), Str(<<"[L](type:action", "action:", ")">>),
     Str(<<"/goto", "B", "CALL_INTENT", "C", "xJUMP_TO", "D">>)}

RichAnswer ==
    [answer |-> Str(<<"REDIRECT_TO_INTENT", "B", "[L](type:action", "action:C)">>),
     redirect_to |-> Word("C"),
     slots |-> List(<<Dict(RichSlot)>>),
     buttons |-> List(<<Dict([action |-> Dict(RichButtonAction)])>>),
     actions |-> List(<<Dict(RichAction)>>)]

AnswerVariants ==
    {Dict(RichAnswer), EmptyDict, PyNone, NaN, Word("x")}
        \cup {Dict(d) : d \in Vary(RichAnswer, "answer", ScalarBad \cup AnswerTexts)}
        \cup {Dict(d) : d \in Vary(RichAnswer, "redirect_to", ScalarBad)}
        \cup {Dict(d) : d \in Vary(RichAnswer, "slots", ListBad \cup {EmptyList} \cup SlotLists)}
        \cup {Dict(d) : d \in Vary(RichAnswer, "buttons", ListBad \cup {EmptyList} \cup ButtonLists)}
        \cup {Dict(d) : d \in Vary(RichAnswer, "actions", ListBad \cup {EmptyList} \cup ActionLists)}

\* the answers lists of up to max answers
AnswerLists(max) == {List(l) : l \in SeqsUpTo(AnswerVariants, max)}

RichCondition == [then_redirect |-> Word("E"), else_redirect |-> Word("F")]
ConditionVariants ==
    {Dict(RichCondition), PyNone, Word("c")}
        \cup {Dict(d) : d \in Vary(RichCondition, "then_redirect", ScalarBad)}
        \cup {Dict(d) : d \in Vary(RichCondition, "else_redirect", ScalarBad)}
FillerVariants ==
    {PyNone, Word("f"), EmptyDict}
        \cup {Dict([conditions |-> v]) : v \in ListBad \cup {EmptyList}}
        \cup {Dict([conditions |-> List(<<v>>)]) : v \in ConditionVariants}
        \cup {Dict([conditions |-> List(<<Dict(RichCondition), Dict([then_redirect |-> Word("B")])>>)])}
FillerLists ==
    {List(<<v>>) : v \in FillerVariants}
        \cup {List(<<Dict([conditions |-> List(<<Dict(RichCondition)>>)]),
                     Dict([conditions |-> List(<<Dict([else_redirect |-> Word("B")])>>)])>>)}

PlainIntent == [intent_id |-> Word("A")]
RichIntent ==
    [intent_id |-> Word("A"),
     record_type |-> Word("dialog"),
     title |-> Word("hello"),
     topics |-> List(<<Word("payment")>>),
     redirect_to |-> Word("B"),
     fallback_intent |-> Word("C"),
     answers |-> List(<<Dict(RichAnswer)>>),
     slot_fillers |-> List(<<Dict([conditions |-> List(<<Dict(RichCondition)>>)])>>),
     matched_intent_id |-> Word("D")]

IntentVariants(base) ==
    Vary(base, "intent_id", {PyNone, PyInt(1), Word("B")})
        \cup Vary(base, "redirect_to", ScalarBad \cup {Word("B")})
        \cup Vary(base, "fallback_intent", ScalarBad \cup {Word("C")})
        \cup Vary(base, "matched_intent_id", ScalarBad \cup {Word("D")})
        \cup Vary(base, "answers", ListBad \cup AnswerLists(MaxAnswers))
        \cup Vary(base, "slot_fillers", ListBad \cup {EmptyList} \cup FillerLists)
        \cup Vary(base, "record_type",
                  {PyNone, NaN, Word("cc_regexp_main"), Word("Main"), Word("cc_match"),
                   Word("viber"), Word("fallback_main")})
        \cup Vary(base, "title",
                  {PyNone, NaN, Word("fallback"), Word("error"), Str(<<"hello", "lk">>), Word("apple")})
        \cup {DictSet(DictSet(base, "record_type", r), "title", t) :
                 r \in {NaN, Word("telegram"), Str(<<"viber", "cc_match">>),
                        Str(<<"cc_match", "cc_regexp_main">>)},
                 t \in {NaN, Word("fallback")}}
        \cup Vary(base, "topics",
                  ListBad \cup {EmptyList, List(<<Word("app"), Word("lk")>>),
                                List(<<PyNone>>), List(<<NaN, Word("apple")>>)})

ExtractIntents(bases) == UNION {IntentVariants(base) : base \in bases}

InitExtract ==
    /\ xintent \in ExtractIntents({PlainIntent, RichIntent})
    /\ xpc = "start"
    /\ xresult = Ok(<<>>)
    /\ all_data = Ok(<<>>)
    /\ redirect_map = <<>> /\ IdleCycle /\ IdleGraph /\ IdleResolve /\ IdleAnalytics
    /\ IdleIntentRisk /\ IdleRisk /\ IdleLoad

\* _extract_transitions(intent)
ExtractCall ==
    /\ xpc = "start"
    /\ xresult' = ExtractTransitions(xintent)
    /\ xpc' = "extracted"
    /\ UNCHANGED <<xintent, all_data, besidesExtract>>

\* all_data = first_pass(intents) over the one-intent corpus
FirstPassCall ==
    /\ xpc = "extracted"
    /\ all_data' = FirstPass(<<xintent>>)
    /\ xpc' = IF all_data'.err = "none" THEN "classified" ELSE "raised"
    /\ UNCHANGED <<xintent, xresult, besidesExtract>>

\* all_data = second_pass(intents, all_data)
SecondPassCall ==
    /\ xpc = "classified"
    /\ all_data' = Ok(SecondPass(<<xintent>>, all_data.val))
    /\ xpc' = "done"
    /\ UNCHANGED <<xintent, xresult, besidesExtract>>

NextExtract ==
    \/ ExtractCall
    \/ FirstPassCall
    \/ SecondPassCall

SpecExtract == InitExtract /\ [][NextExtract]_vars

\* the intent with list field f emptied / with the slots of answer i emptied
Emptied(intent, f) == DictSet(intent, f, EmptyList)
EmptiedSlots(intent, i) ==
    DictSet(intent, "answers",
            List([intent["answers"].l EXCEPT ![i] = Dict(DictSet(@.d, "slots", EmptyList))]))

\* field f of the dict is present and its value is not a list
MalformedList(d, f) == f \in DOMAIN d /\ d[f].k # "list"
\* the answers whose slots entry is present and not a list
MalformedSlots(intent) ==
    IF "answers" \in DOMAIN intent /\ intent["answers"].k = "list"
    THEN {i \in 1..Len(intent["answers"].l) :
            /\ IsDict(intent["answers"].l[i])
            /\ MalformedList(intent["answers"].l[i].d, "slots")}
    ELSE {}

C7_WitnessNested ==
    \/ xpc = "extracted" /\ MalformedSlots(xintent) # {} /\ Len(xresult.val) > 0
    \/ xpc = "done" /\ MalformedList(xintent, "topics")

\* C8: _extract_transitions returns normally for every intent, whatever
\* value stands where a string or a map is expected.
C8_ExtractNeverRaises ==
    xpc # "start" => xresult.err = "none"

\* C9: every Transition returned by _extract_transitions has a non-empty
\* string as its target_id.
C9_TargetsAreNonEmptyStrings ==
    (xpc # "start" /\ xresult.err = "none") =>
        \A i \in 1..Len(xresult.val) :
            IsStr(xresult.val[i].target_id) /\ xresult.val[i].target_id # EmptyStr

\* first_pass has returned for the extracted intent
Classified == xpc \in {"classified", "done"}

\* the positions of xresult.val that hold the first transition of their key
FirstOccurrences ==
    {i \in 1..Len(xresult.val) :
        \A j \in 1..(i - 1) : TransitionKey(xresult.val[j]) # TransitionKey(xresult.val[i])}

\* the k-th smallest position of FirstOccurrences
KthFirstOccurrence(k) ==
    CHOOSE i \in FirstOccurrences : Cardinality({j \in FirstOccurrences : j <= i}) = k

\* C11: the transitions of first_pass hold no two transitions of the same
\* key (source_id, target_id, transition_type) and one transition for every
\* key of the extracted list: the first occurrence, condition included, and
\* the kept transitions stand in the order they have in the extracted list.
C11_DedupKeepsFirstOccurrences ==
    Classified =>
        /\ \A a, b \in 1..Len(all_data.val.transitions) :
              TransitionKey(all_data.val.transitions[a]) = TransitionKey(all_data.val.transitions[b])
                  => a = b
        /\ \A i \in 1..Len(xresult.val) :
              \E a \in 1..Len(all_data.val.transitions) :
                  TransitionKey(all_data.val.transitions[a]) = TransitionKey(xresult.val[i])
        /\ Len(all_data.val.transitions) = Cardinality(FirstOccurrences)
        /\ \A k \in 1..Len(all_data.val.transitions) :
              all_data.val.transitions[k] = xresult.val[KthFirstOccurrence(k)]

\* a later transition was dropped whose condition differs from the kept
\* one's, and a kept transition follows the dropped one
C11_Witness ==
    /\ Classified
    /\ \E i, j \in 1..Len(xresult.val) :
          /\ i < j /\ j < Len(xresult.val)
          /\ TransitionKey(xresult.val[i]) = TransitionKey(xresult.val[j])
          /\ xresult.val[i].condition # xresult.val[j].condition
          /\ Len(xresult.val) \in FirstOccurrences

\* C12: the deduplication step applied to the transitions first_pass returned
\* gives the same list again.
C12_DedupIsIdempotent ==
    Classified =>
        Dedup(all_data.val.transitions, 1, {}, <<>>) = all_data.val.transitions

\* the first application dropped a duplicate and kept several transitions
C12_Witness ==
    /\ Classified
    /\ Len(all_data.val.transitions) < Len(xresult.val)
    /\ Len(all_data.val.transitions) >= 3

(***************************************************************************)
(* detect_circular_redirects (utils/validators.py)                         *)
(***************************************************************************)
MaxNode == 3        \* keys and targets of the generated maps are drawn from 1..MaxNode
MaxTargets == 2     \* longest target list of a generated map

CycleNodes == 1..MaxNode

\* test_detect_circular_redirects: {"1":["2"], "2":["3"], "3":["1"], "4":["5"]}
TestMapOneCycle ==
    [keys |-> <<1, 2, 3, 4>>,
     tg   |-> (1 :> <<2>>) @@ (2 :> <<3>>) @@ (3 :> <<1>>) @@ (4 :> <<5>>)]

\* test_detect_multiple_cycles: a<->b and x->y->z->x, with a=1 b=2 x=3 y=4 z=5
TestMapTwoCycles ==
    [keys |-> <<1, 2, 3, 4, 5>>,
     tg   |-> (1 :> <<2>>) @@ (2 :> <<1>>) @@ (3 :> <<4>>) @@ (4 :> <<5>>) @@ (5 :> <<3>>)]

\* the adjacency maps of up to MaxNode keys over nodes, each key with up to
\* MaxTargets targets, and the two maps of the repository's tests
RedirectMaps(nodes) ==
    UNION {{[keys |-> ks, tg |-> f] : f \in [Range(ks) -> SeqsUpTo(nodes, MaxTargets)]} :
              ks \in InjSeqsUpTo(nodes, MaxNode)}
        \cup {TestMapOneCycle, TestMapTwoCycles}

\* redirect_map.get(node, [])
MapGet(m, node) == IF node \in DOMAIN m.tg THEN m.tg[node] ELSE <<>>

\* a slip of the slice: the whole path instead of path[cycle_start:]
CycleOfWholePath(path, node) == path \o <<node>>

\* a slip of the slice: path[cycle_start + 1:]
CycleOfOffByOne(path, node) ==
    LET cycle_start == IndexOf(node, path)
    IN  SubSeq(path, cycle_start + 1, Len(path)) \o <<node>>

\* path[cycle_start:] + [node]
CycleOf(path, node) ==
    LET cycle_start == IndexOf(node, path)
    IN  SubSeq(path, cycle_start, Len(path)) \o <<node>>

\* `if cycle not in cycles: cycles.append(cycle)`
AppendCycle(cs, cycle) == IF InList(cycle, cs) THEN cs ELSE Append(cs, cycle)

Top == stack[Len(stack)]
Pop == SubSeq(stack, 1, Len(stack) - 1)

InitCycle ==
    /\ redirect_map \in RedirectMaps(CycleNodes)
    /\ cpc = "run"
    /\ start = 1
    /\ stack = <<>>
    /\ visited = {}
    /\ cycles = <<>>
    /\ IdleExtract /\ IdleGraph /\ IdleResolve /\ IdleAnalytics /\ IdleIntentRisk
    /\ IdleRisk /\ IdleLoad

\* a slip of the loop: one visited set for all the start nodes
CycleStartSharedVisited ==
    /\ cpc = "run" /\ stack = <<>> /\ start <= Len(redirect_map.keys)
    /\ stack' = <<[node |-> redirect_map.keys[start], path |-> <<>>, i |-> 0]>>
    /\ start' = start + 1
    /\ UNCHANGED <<redirect_map, cpc, cycles, visited>>
    /\ UNCHANGED besidesCycle

\* for start_node in redirect_map.keys(): dfs(start_node, [], set())
CycleStart ==
    /\ cpc = "run" /\ stack = <<>> /\ start <= Len(redirect_map.keys)
    /\ stack' = <<[node |-> redirect_map.keys[start], path |-> <<>>, i |-> 0]>>
    /\ visited' = {}
    /\ start' = start + 1
    /\ UNCHANGED <<redirect_map, cpc, cycles>>
    /\ UNCHANGED besidesCycle

\* dfs entry: `if node in path:` record the cycle and return
DfsCycleFound ==
    /\ cpc = "run" /\ stack # <<>> /\ Top.i = 0
    /\ InList(Top.node, Top.path)
    /\ cycles' = AppendCycle(cycles, CycleOf(Top.path, Top.node))
    /\ stack' = Pop
    /\ UNCHANGED <<redirect_map, cpc, start, visited>>
    /\ UNCHANGED besidesCycle

\* dfs entry: `if node in visited: return`
DfsSkipVisited ==
    /\ cpc = "run" /\ stack # <<>> /\ Top.i = 0
    /\ ~InList(Top.node, Top.path)
    /\ Top.node \in visited
    /\ stack' = Pop
    /\ UNCHANGED <<redirect_map, cpc, start, visited, cycles>>
    /\ UNCHANGED besidesCycle

\* a slip of dfs: visited.add(node) left out
DfsExpandForgetful ==
    /\ cpc = "run" /\ stack # <<>> /\ Top.i = 0
    /\ ~InList(Top.node, Top.path)
    /\ Top.node \notin visited
    /\ stack' = Pop \o <<[node |-> Top.node, path |-> Append(Top.path, Top.node), i |-> 1]>>
    /\ UNCHANGED <<redirect_map, cpc, start, cycles, visited>>
    /\ UNCHANGED besidesCycle

\* dfs entry: visited.add(node); path.append(node)
DfsExpand ==
    /\ cpc = "run" /\ stack # <<>> /\ Top.i = 0
    /\ ~InList(Top.node, Top.path)
    /\ Top.node \notin visited
    /\ visited' = visited \cup {Top.node}
    /\ stack' = Pop \o <<[node |-> Top.node, path |-> Append(Top.path, Top.node), i |-> 1]>>
    /\ UNCHANGED <<redirect_map, cpc, start, cycles>>
    /\ UNCHANGED besidesCycle

\* the for loop of dfs: dfs(target, path.copy(), visited) for the next target
DfsCallTarget ==
    /\ cpc = "run" /\ stack # <<>> /\ Top.i >= 1
    /\ Top.i <= Len(MapGet(redirect_map, Top.node))
    /\ stack' = Pop \o <<[Top EXCEPT !.i = @ + 1],
                         [node |-> MapGet(redirect_map, Top.node)[Top.i],
                          path |-> Top.path, i |-> 0]>>
    /\ UNCHANGED <<redirect_map, cpc, start, visited, cycles>>
    /\ UNCHANGED besidesCycle

\* the for loop of dfs is exhausted: return to the caller
DfsReturn ==
    /\ cpc = "run" /\ stack # <<>> /\ Top.i >= 1
    /\ Top.i > Len(MapGet(redirect_map, Top.node))
    /\ stack' = Pop
    /\ UNCHANGED <<redirect_map, cpc, start, visited, cycles>>
    /\ UNCHANGED besidesCycle

\* `return cycles`
CycleFinish ==
    /\ cpc = "run" /\ stack = <<>> /\ start > Len(redirect_map.keys)
    /\ cpc' = "done"
    /\ UNCHANGED <<redirect_map, start, stack, visited, cycles>>
    /\ UNCHANGED besidesCycle

NextCycle ==
    \/ CycleStart
    \/ DfsCycleFound
    \/ DfsSkipVisited
    \/ DfsExpand
    \/ DfsCallTarget
    \/ DfsReturn
    \/ CycleFinish

SpecCycle == InitCycle /\ [][NextCycle]_vars

\* the node set of a reported cycle, the closing repeat dropped: set(cycle[:-1])
CycleNodeSet(c) == Range(SubSeq(c, 1, Len(c) - 1))

\* C1: detect_circular_redirects reports exactly one cycle per distinct cycle
\* node set: in the returned list no two cycles have the same node set once
\* the closing repeat and the start point are ignored; the map of
\* test_detect_circular_redirects yields exactly one cycle, with node set
\* {1,2,3}, and the map of test_detect_multiple_cycles exactly two.
C1_OneCyclePerNodeSet ==
    cpc = "done" =>
        /\ \A i, j \in 1..Len(cycles) :
              i # j => CycleNodeSet(cycles[i]) # CycleNodeSet(cycles[j])
        /\ redirect_map = TestMapOneCycle =>
              Len(cycles) = 1 /\ CycleNodeSet(cycles[1]) = {1, 2, 3}
        /\ redirect_map = TestMapTwoCycles => Len(cycles) = 2

\* C2: every cycle in the cycles list starts and ends with the same node and
\* each consecutive pair (c[i], c[i+1]) is an edge of the adjacency map.
C2_CyclesAreClosedWalks ==
    \A k \in 1..Len(cycles) :
        LET c == cycles[k]
        IN  /\ Len(c) >= 2
            /\ c[1] = c[Len(c)]
            /\ \A i \in 1..(Len(c) - 1) : InList(c[i + 1], MapGet(redirect_map, c[i]))

\* a finished run that reported a cycle entered from outside it (the path
\* slice dropped a prefix) and a cycle through three nodes
C2_Witness ==
    /\ cpc = "done"
    /\ \E k \in 1..Len(cycles) : Len(cycles[k]) = 4
    /\ \E k \in 1..Len(cycles) : cycles[k][1] # redirect_map.keys[1]

(***************************************************************************)
(* validate_redirects (utils/validators.py), build_graph                   *)
(* (utils/graph_analyzer.py) and the external targets of the exporters     *)
(* (utils/multi_format_exporter.py)                                        *)
(***************************************************************************)
EmptyMap == [keys |-> <<>>, tg |-> <<>>]

\* redirect_map[key].append(target) for each target, on a defaultdict(list)
MapAppendAll(map, key, targets) ==
    IF targets = <<>> THEN map
    ELSE [keys |-> IF InList(key, map.keys) THEN map.keys ELSE Append(map.keys, key),
          tg   |-> (key :> (MapGet(map, key) \o targets)) @@ map.tg]

RECURSIVE RedirectsOfAnswers(_, _, _, _)
\* the loop of validate_redirects over the answers of one intent, from
\* answer i on: answer.get raises AttributeError on an answer that is no dict
RedirectsOfAnswers(intent_id, answers, i, map) ==
    IF i > Len(answers) THEN Ok(map)
    ELSE IF ~IsDict(answers[i]) THEN Raise("AttributeError")
    ELSE LET answer_text == DictGet(answers[i].d, "answer", EmptyStr)
         IN  RedirectsOfAnswers(intent_id, answers, i + 1,
                 MapAppendAll(map, intent_id,
                              IF IsStr(answer_text) THEN FindAll(answer_text.s, 1, 1)
                              ELSE <<>>))

\* the body of validate_redirects for one intent: iterating a value that is
\* not iterable raises TypeError; the items of a non-empty str or dict are
\* strs, on which answer.get raises AttributeError
RedirectsOfIntent(intent, map) ==
    LET intent_id == DictGet(intent, "intent_id", Word("unknown"))
        answers == DictGet(intent, "answers", EmptyList)
    IN  IF ~HasLen(answers) THEN Raise("TypeError")
        ELSE IF answers.k # "list"
             THEN IF Truthy(answers) THEN Raise("AttributeError") ELSE Ok(map)
             ELSE RedirectsOfAnswers(intent_id, answers.l, 1, map)

RECURSIVE ValidateRedirectsLoop(_, _, _)
\* the loop of validate_redirects from intent i on
ValidateRedirectsLoop(corpus, i, map) ==
    IF i > Len(corpus) THEN Ok(map)
    ELSE LET r == RedirectsOfIntent(corpus[i], map)
         IN  IF r.err # "none" THEN r
             ELSE ValidateRedirectsLoop(corpus, i + 1, r.val)

\* validate_redirects(intents)['redirect_map']
ValidateRedirects(corpus) == ValidateRedirectsLoop(corpus, 1, EmptyMap)

\* all_ids = {i.get('intent_id') for i in intents}
AllIds(corpus) == {DictGet(corpus[i], "intent_id", PyNone) : i \in 1..Len(corpus)}

\* the (intent_id, target) pairs the targets of one intent add to
\* broken_redirects: those with `target not in all_ids`
BrokenOfIntent(intent, all_ids) ==
    LET intent_id == DictGet(intent, "intent_id", Word("unknown"))
        targets == MapGet(RedirectsOfIntent(intent, EmptyMap).val, intent_id)
        pairs == [j \in 1..Len(targets) |-> <<intent_id, targets[j]>>]
    IN  SelectSeq(pairs, LAMBDA p : p[2] \notin all_ids)

RECURSIVE BrokenRedirects(_, _, _)
\* broken_redirects after the loop of validate_redirects up to intent n
BrokenRedirects(corpus, n, all_ids) ==
    IF n = 0 THEN <<>>
    ELSE BrokenRedirects(corpus, n - 1, all_ids) \o BrokenOfIntent(corpus[n], all_ids)

RECURSIVE TotalRedirects(_, _)
\* the length of redirect_map[key] summed over the keys from position i on
TotalRedirects(map, i) ==
    IF i > Len(map.keys) THEN 0
    ELSE Len(MapGet(map, map.keys[i])) + TotalRedirects(map, i + 1)

\* a slip of validate_redirects: every redirect reported as broken
RedirectsResultAllBroken(corpus, map) ==
    LET broken_redirects == BrokenRedirects(corpus, Len(corpus), {})
    IN  [total_redirects |-> TotalRedirects(map, 1),
         broken_redirects |-> broken_redirects,
         broken_count |-> Len(broken_redirects),
         is_valid |-> Len(broken_redirects) = 0]

\* the result of validate_redirects(intents) besides its redirect_map, when
\* the loop has built the given redirect_map without raising
RedirectsResult(corpus, map) ==
    LET broken_redirects == BrokenRedirects(corpus, Len(corpus), AllIds(corpus))
    IN  [total_redirects |-> TotalRedirects(map, 1),
         broken_redirects |-> broken_redirects,
         broken_count |-> Len(broken_redirects),
         is_valid |-> Len(broken_redirects) = 0]

\* `not value or len(value) == 0` of validate_empty_content raises TypeError
\* on a truthy value without len (a NaN float, a number other than 0)
EmptyTestRaises(value) == Truthy(value) /\ ~HasLen(value)

\* validate_empty_content(intents) raises on some intent
ValidateEmptyContentRaises(corpus) ==
    \E i \in 1..Len(corpus) :
        \/ EmptyTestRaises(DictGet(corpus[i], "answers", EmptyList))
        \/ EmptyTestRaises(DictGet(corpus[i], "inputs", EmptyList))

\* run_all_validations(intents, {}): the exception it raises, or
\* results['redirects']['redirect_map']
RunAllValidations(corpus) ==
    IF ValidateEmptyContentRaises(corpus) THEN Raise("TypeError")
    ELSE ValidateRedirects(corpus)

\* transitions_tuples = [(t.source_id, t.target_id) for t in transitions_full]
TransitionsTuples(transitions_full) ==
    [i \in 1..Len(transitions_full) |->
        <<transitions_full[i].source_id, transitions_full[i].target_id>>]

\* graph = {'nodes': set(), 'edges': [], 'entry_points': [], ...}
EmptyGraph ==
    [nodes |-> {}, edges |-> <<>>, entry_points |-> <<>>, dead_ends |-> <<>>,
     node_info |-> <<>>]

\* len(intent.get('inputs', [])) > 0 and the same of answers: len raises
\* TypeError on None, a float or an int
LenRaises(intent) ==
    \/ ~HasLen(DictGet(intent, "inputs", EmptyList))
    \/ ~HasLen(DictGet(intent, "answers", EmptyList))

\* graph['node_info'][intent_id]
NodeInfo(intent) ==
    [record_type |-> DictGet(intent, "record_type", EmptyStr),
     title       |-> DictGet(intent, "title", EmptyStr),
     has_inputs  |-> PyLen(DictGet(intent, "inputs", EmptyList)) > 0,
     has_answers |-> PyLen(DictGet(intent, "answers", EmptyList)) > 0]

\* record_type == 'cc_regexp_main' and len(intent.get('inputs', [])) > 0
IsEntryPoint(intent) ==
    /\ DictGet(intent, "record_type", EmptyStr) = Word("cc_regexp_main")
    /\ PyLen(DictGet(intent, "inputs", EmptyList)) > 0

RECURSIVE CollectNodes(_, _, _)
\* the first loop of build_graph from intent i on
CollectNodes(corpus, i, g) ==
    IF i > Len(corpus) THEN Ok(g)
    ELSE IF LenRaises(corpus[i]) THEN Raise("TypeError")
    ELSE LET intent_id == DictGet(corpus[i], "intent_id", PyNone)
         IN  CollectNodes(corpus, i + 1,
                 [g EXCEPT !.nodes = @ \cup {intent_id},
                           !.node_info = (intent_id :> NodeInfo(corpus[i])) @@ @,
                           !.entry_points = IF IsEntryPoint(corpus[i])
                                            THEN Append(@, intent_id) ELSE @])

\* edge_set: the redirect_map pairs whose target is a node, and the
\* transition pairs whose source and target are nodes
EdgeSet(nodes, map, tuples) ==
    UNION {{<<source, target>> : target \in Range(MapGet(map, source)) \cap nodes} :
              source \in Range(map.keys)}
        \cup {tuples[i] : i \in {j \in 1..Len(tuples) :
                                    tuples[j][1] \in nodes /\ tuples[j][2] \in nodes}}

\* a slip of the dead-end rule: the nodes no edge enters
NodesWithoutIncoming(nodes, edges) ==
    {node \in nodes : ~\E i \in 1..Len(edges) : edges[i][2] = node}

\* the nodes not in nodes_with_outgoing = {src for src, _ in graph['edges']}
DeadEndNodes(nodes, edges) ==
    {node \in nodes : ~\E i \in 1..Len(edges) : edges[i][1] = node}

\* list(a_set): the elements in one of the orders the set can iterate in
Orders(S) == {q \in [1..Cardinality(S) -> S] : Range(q) = S}

\* build_graph(intents, redirect_map, transitions): the TypeError it raises,
\* or the graphs it can return, which differ in the order of the two lists
\* built from sets
BuildGraph(corpus, map, tuples) ==
    LET r == CollectNodes(corpus, 1, EmptyGraph)
    IN  IF r.err # "none" THEN Raise(r.err)
        ELSE Ok(UNION {{[r.val EXCEPT !.edges = edges, !.dead_ends = dead_ends] :
                           dead_ends \in Orders(DeadEndNodes(r.val.nodes, edges))} :
                          edges \in Orders(EdgeSet(r.val.nodes, map, tuples))})

\* _safe_str of multi_format_exporter.py
ExporterSafeStr(value, default) ==
    IF value.k = "none" THEN default
    ELSE IF value.k = "nan" THEN default
    ELSE IF value.k = "str" THEN value
    ELSE Str(PyStr(value))

\* all_intent_ids of the exporters: the truthy _safe_str(intent_id, '')
AllIntentIds(corpus) ==
    {id \in {ExporterSafeStr(DictGet(corpus[i], "intent_id", PyNone), EmptyStr) :
                i \in 1..Len(corpus)} : Truthy(id)}

\* external_targets of the exporters
ExternalTargets(corpus, transition_list) ==
    {transition_list[i].target_id :
        i \in {j \in 1..Len(transition_list) :
                  /\ Truthy(transition_list[j].target_id)
                  /\ transition_list[j].target_id \notin AllIntentIds(corpus)}}

(***************************************************************************)
(* SpecGraph: a corpus of up to MaxIntents intent records through the      *)
(* validation, the analysis passes, the graph builder and the exporters,   *)
(* in the order of main (generator_v5.1_main.py).                          *)
(***************************************************************************)
MaxIntents == 2     \* most intents of a corpus

\* an intent is an identity (none, a str or a number) and one feature
GraphBases == {<<>>, [intent_id |-> Word("A")], [intent_id |-> Word("B")],
               [intent_id |-> PyInt(1)]}
GraphFeatures ==
    {<<>>, [answers |-> PyNone], [answers |-> List(<<PyNone>>)],
     [inputs |-> PyNone], [inputs |-> NaN], [inputs |-> EmptyList],
     [record_type |-> PyNone], [record_type |-> NaN],
     [record_type |-> Word("cc_regexp_main")],
     [record_type |-> Word("cc_regexp_main"), inputs |-> List(<<Word("hi")>>)],
     [record_type |-> Word("Main"), inputs |-> List(<<Word("hi")>>)],
     [symbol_code |-> Word("S")]}
        \cup {[redirect_to |-> Word(t)] : t \in {"A", "B", "1", "S", "Z"}}
        \cup {[answers |-> List(<<Dict([answer |-> Str(<<"REDIRECT_TO_INTENT", t>>)])>>)] :
                 t \in {"A", "B", "Z", "1"}}
        \cup {[answers |->
                  List(<<Dict([answer |-> Str(<<"REDIRECT_TO_INTENT", "Z", "hello",
                                               "REDIRECT_TO_INTENT", "A">>)]),
                         Dict([answer |-> PyNone]),
                         Dict([answer |-> Str(<<"REDIRECT_TO_INTENT", "B">>)])>>)]}
GraphIntents == {f @@ b : b \in GraphBases, f \in GraphFeatures}
Corpora == SeqsUpTo(GraphIntents, MaxIntents) \ {<<>>}

InitGraph ==
    /\ intents \in Corpora
    /\ gpc = "start"
    /\ raised_in = ""
    /\ redirect_map = EmptyMap
    /\ transitions = <<>>
    /\ graph = EmptyGraph
    /\ external_targets = {}
    /\ redirects = <<>>
    /\ IdleCycle /\ IdleExtract /\ IdleResolve /\ IdleAnalytics /\ IdleIntentRisk
    /\ IdleRisk /\ IdleLoad

\* validation_results = run_all_validations(intents, {}): its redirect_map
RunAllValidationsCall ==
    /\ gpc = "start"
    /\ \E r \in {RunAllValidations(intents)} :
          IF r.err = "none"
          THEN /\ redirect_map' = r.val
               /\ redirects' = RedirectsResult(intents, r.val)
               /\ gpc' = "validated"
               /\ UNCHANGED raised_in
          ELSE /\ gpc' = "raised"
               /\ raised_in' = "run_all_validations"
               /\ UNCHANGED <<redirect_map, redirects>>
    /\ UNCHANGED <<intents, transitions, graph, external_targets, besidesGraph>>

\* all_data = first_pass(intents) ...; transitions_full = all_data['transitions']
AnalysisPasses ==
    /\ gpc = "validated"
    /\ \E r \in {FirstPass(intents)} :
          IF r.err = "none"
          THEN transitions' = r.val.transitions /\ gpc' = "analyzed" /\ UNCHANGED raised_in
          ELSE gpc' = "raised" /\ raised_in' = "first_pass" /\ UNCHANGED transitions
    /\ UNCHANGED <<intents, redirect_map, graph, external_targets, redirects, besidesGraph>>

\* graph = build_graph(intents, redirect_map, transitions_tuples)
BuildGraphCall ==
    /\ gpc = "analyzed"
    /\ \E r \in {BuildGraph(intents, redirect_map, TransitionsTuples(transitions))} :
          IF r.err = "none"
          THEN (\E g \in r.val : graph' = g) /\ gpc' = "built" /\ UNCHANGED raised_in
          ELSE gpc' = "raised" /\ raised_in' = "build_graph" /\ UNCHANGED graph
    /\ UNCHANGED <<intents, redirect_map, transitions, external_targets, redirects, besidesGraph>>

\* export_all_formats(intents, transitions_full, ...): the external targets
ExportAllFormats ==
    /\ gpc = "built"
    /\ external_targets' = ExternalTargets(intents, transitions)
    /\ gpc' = "exported"
    /\ UNCHANGED <<intents, redirect_map, transitions, graph, raised_in, redirects, besidesGraph>>

NextGraph ==
    \/ RunAllValidationsCall
    \/ AnalysisPasses
    \/ BuildGraphCall
    \/ ExportAllFormats

SpecGraph == InitGraph /\ [][NextGraph]_vars

\* build_graph has returned
Built == gpc \in {"built", "exported"}

\* target is the intent_id of an intent of the corpus
IsIntentId(target) ==
    \E k \in 1..Len(intents) :
        "intent_id" \in DOMAIN intents[k] /\ intents[k]["intent_id"] = target

\* C3: every edge (a, b) of the graph build_graph returns has both a and b
\* among the graph's nodes, whether it comes from redirect_map or from the
\* transitions.
C3_EdgesJoinNodes ==
    Built => \A i \in 1..Len(graph.edges) :
                 graph.edges[i][1] \in graph.nodes /\ graph.edges[i][2] \in graph.nodes

\* C4: dead_ends holds exactly the nodes with out-degree zero: n is in
\* dead_ends if and only if n is a node and no edge (n, x) exists, a
\* self-loop counting as an outgoing edge.
C4_DeadEndsHaveNoOutgoingEdge ==
    Built => \A n \in graph.nodes \cup Range(graph.dead_ends) :
                 InList(n, graph.dead_ends)
                     <=> (/\ n \in graph.nodes
                          /\ ~\E i \in 1..Len(graph.edges) : graph.edges[i][1] = n)

\* a graph of two nodes, one with a self-loop and the other a dead end
C4_Witness ==
    /\ gpc = "built"
    /\ Cardinality(graph.nodes) = 2
    /\ \E i \in 1..Len(graph.edges) : graph.edges[i][1] = graph.edges[i][2]
    /\ Len(graph.dead_ends) = 1

\* C5: a transition whose source is a node and whose target is no intent_id
\* but the symbol_code of the intent with intent_id i gives the edge
\* (source, i) in the built graph.
C5_SymbolCodeTargetGivesEdge ==
    Built => \A i \in 1..Len(transitions), j \in 1..Len(intents) :
                 (/\ transitions[i].source_id \in graph.nodes
                  /\ ~IsIntentId(transitions[i].target_id)
                  /\ DictGet(intents[j], "symbol_code", PyNone) = transitions[i].target_id
                  /\ "intent_id" \in DOMAIN intents[j])
                 => InList(<<transitions[i].source_id, intents[j]["intent_id"]>>, graph.edges)

\* C6: the target of a transition that is the intent_id of no intent of the
\* corpus is not a node, ends no edge, and is in the exporters' external
\* targets.
C6_UnresolvedTargetsAreExternal ==
    gpc = "exported" =>
        \A i \in 1..Len(transitions) :
            ~IsIntentId(transitions[i].target_id) =>
                /\ transitions[i].target_id \notin graph.nodes
                /\ ~\E e \in 1..Len(graph.edges) : graph.edges[e][2] = transitions[i].target_id
                /\ transitions[i].target_id \in external_targets

\* C10: build_graph returns a graph for every intent list, whatever stands
\* in record_type, inputs or answers.
C10_BuildGraphNeverRaises ==
    raised_in # "build_graph"

\* intent has inputs of a positive length
HasInputs(intent) ==
    LET inputs == DictGet(intent, "inputs", EmptyList)
    IN  HasLen(inputs) /\ PyLen(inputs) > 0

\* C15: every intent that first_pass classifies as main_intent and that has
\* non-empty inputs is among the entry_points of the graph, and an intent
\* without record_type or without inputs is an entry point only if another
\* intent of the same intent_id is one.
C15_MainIntentsWithInputsAreEntryPoints ==
    Built =>
        /\ \A k \in 1..Len(intents) :
              (IntentType(intents[k]) = "main_intent" /\ HasInputs(intents[k]))
                  => InList(DictGet(intents[k], "intent_id", PyNone), graph.entry_points)
        /\ \A n \in Range(graph.entry_points) :
              \E k \in 1..Len(intents) :
                  /\ DictGet(intents[k], "intent_id", PyNone) = n
                  /\ "record_type" \in DOMAIN intents[k]
                  /\ HasInputs(intents[k])

\* C13: two runs over the same intent collection give identical outputs, the
\* order of graph['edges'] and graph['dead_ends'] included: the graph
\* build_graph returned is the only one it can return for its arguments.
C13_BuildGraphIsDeterministic ==
    Built => BuildGraph(intents, redirect_map, TransitionsTuples(transitions)).val = {graph}

(***************************************************************************)
(* build_intent_mappings and resolve_target_id (utils/analyzers.py)        *)
(***************************************************************************)
\* the mappings literal build_intent_mappings starts from
EmptyMappings ==
    [by_intent_id |-> <<>>, by_symbol_code |-> <<>>, symbol_to_intent |-> <<>>,
     action_to_intent |-> <<>>, all_intent_ids |-> {}, all_symbol_codes |-> {}]

\* some action of the answer is a dict whose truthy action_id == symbol_code
AnswerHasActionId(answer, symbol_code) ==
    /\ IsDict(answer)
    /\ \E a \in Range(SafeList(DictGet(answer.d, "actions", EmptyList)).l) :
          /\ IsDict(a)
          /\ Truthy(DictGet(a.d, "action_id", EmptyStr))
          /\ DictGet(a.d, "action_id", EmptyStr) = symbol_code

\* the truthy action_id values of the dict actions of the dict answers
ActionIds(answers) ==
    {id \in UNION {{DictGet(a.d, "action_id", EmptyStr) :
                       a \in {x \in Range(SafeList(DictGet(answer.d, "actions", EmptyList)).l) :
                                 IsDict(x)}} :
                   answer \in {x \in Range(answers.l) : IsDict(x)}} : Truthy(id)}

\* a slip of the loop body: the first intent of a symbol_code kept
MappingsOfIntentFirstWins(m, intent) ==
    LET intent_id == SafeStr(DictGet(intent, "intent_id", PyNone), EmptyStr)
        symbol_code == SafeStr(DictGet(intent, "symbol_code", PyNone), EmptyStr)
        answers == SafeList(DictGet(intent, "answers", EmptyList))
    IN  [by_intent_id |->
            IF Truthy(intent_id) THEN (intent_id :> intent) @@ m.by_intent_id
            ELSE m.by_intent_id,
         all_intent_ids |->
            IF Truthy(intent_id) THEN m.all_intent_ids \cup {intent_id}
            ELSE m.all_intent_ids,
         by_symbol_code |->
            IF Truthy(symbol_code) THEN (symbol_code :> intent) @@ m.by_symbol_code
            ELSE m.by_symbol_code,
         all_symbol_codes |->
            IF Truthy(symbol_code) THEN m.all_symbol_codes \cup {symbol_code}
            ELSE m.all_symbol_codes,
         symbol_to_intent |->
            IF Truthy(symbol_code) /\ Truthy(intent_id)
            THEN m.symbol_to_intent @@ (symbol_code :> intent_id)
            ELSE m.symbol_to_intent,
         action_to_intent |->
            IF /\ Truthy(intent_id)
               /\ \E i \in 1..Len(answers.l) : AnswerHasActionId(answers.l[i], symbol_code)
            THEN (symbol_code :> intent_id) @@ m.action_to_intent
            ELSE m.action_to_intent]

\* a slip of the loop body: every action_id recorded, equal to the
\* symbol_code or not
MappingsOfIntentEveryAction(m, intent) ==
    LET intent_id == SafeStr(DictGet(intent, "intent_id", PyNone), EmptyStr)
        symbol_code == SafeStr(DictGet(intent, "symbol_code", PyNone), EmptyStr)
        answers == SafeList(DictGet(intent, "answers", EmptyList))
    IN  [by_intent_id |->
            IF Truthy(intent_id) THEN (intent_id :> intent) @@ m.by_intent_id
            ELSE m.by_intent_id,
         all_intent_ids |->
            IF Truthy(intent_id) THEN m.all_intent_ids \cup {intent_id}
            ELSE m.all_intent_ids,
         by_symbol_code |->
            IF Truthy(symbol_code) THEN (symbol_code :> intent) @@ m.by_symbol_code
            ELSE m.by_symbol_code,
         all_symbol_codes |->
            IF Truthy(symbol_code) THEN m.all_symbol_codes \cup {symbol_code}
            ELSE m.all_symbol_codes,
         symbol_to_intent |->
            IF Truthy(symbol_code) /\ Truthy(intent_id)
            THEN (symbol_code :> intent_id) @@ m.symbol_to_intent
            ELSE m.symbol_to_intent,
         action_to_intent |->
            IF Truthy(intent_id)
            THEN [a \in ActionIds(answers) |-> intent_id] @@ m.action_to_intent
            ELSE m.action_to_intent]

\* the body of the loop of build_intent_mappings for one intent
MappingsOfIntent(m, intent) ==
    LET intent_id == SafeStr(DictGet(intent, "intent_id", PyNone), EmptyStr)
        symbol_code == SafeStr(DictGet(intent, "symbol_code", PyNone), EmptyStr)
        answers == SafeList(DictGet(intent, "answers", EmptyList))
    IN  [by_intent_id |->
            IF Truthy(intent_id) THEN (intent_id :> intent) @@ m.by_intent_id
            ELSE m.by_intent_id,
         all_intent_ids |->
            IF Truthy(intent_id) THEN m.all_intent_ids \cup {intent_id}
            ELSE m.all_intent_ids,
         by_symbol_code |->
            IF Truthy(symbol_code) THEN (symbol_code :> intent) @@ m.by_symbol_code
            ELSE m.by_symbol_code,
         all_symbol_codes |->
            IF Truthy(symbol_code) THEN m.all_symbol_codes \cup {symbol_code}
            ELSE m.all_symbol_codes,
         symbol_to_intent |->
            IF Truthy(symbol_code) /\ Truthy(intent_id)
            THEN (symbol_code :> intent_id) @@ m.symbol_to_intent
            ELSE m.symbol_to_intent,
         action_to_intent |->
            IF /\ Truthy(intent_id)
               /\ \E i \in 1..Len(answers.l) : AnswerHasActionId(answers.l[i], symbol_code)
            THEN (symbol_code :> intent_id) @@ m.action_to_intent
            ELSE m.action_to_intent]

RECURSIVE BuildIntentMappingsLoop(_, _, _)
\* the loop of build_intent_mappings from intent i on
BuildIntentMappingsLoop(corpus, i, m) ==
    IF i > Len(corpus) THEN m
    ELSE BuildIntentMappingsLoop(corpus, i + 1, MappingsOfIntent(m, corpus[i]))

\* build_intent_mappings(intents)
BuildIntentMappings(corpus) == BuildIntentMappingsLoop(corpus, 1, EmptyMappings)

\* a slip of the precedence: symbol_code looked up before intent_id
ResolveSymbolFirst(target, m) ==
    IF ~Truthy(target) THEN target
    ELSE IF target \in DOMAIN DictGet(m, "symbol_to_intent", <<>>)
    THEN m["symbol_to_intent"][target]
    ELSE IF target \in DictGet(m, "all_intent_ids", {}) THEN target
    ELSE IF target \in DOMAIN DictGet(m, "action_to_intent", <<>>)
    THEN m["action_to_intent"][target]
    ELSE target

\* resolve_target_id(target, mappings)
ResolveTargetId(target, m) ==
    IF ~Truthy(target) THEN target
    ELSE IF target \in DictGet(m, "all_intent_ids", {}) THEN target
    ELSE IF target \in DOMAIN DictGet(m, "symbol_to_intent", <<>>)
    THEN m["symbol_to_intent"][target]
    ELSE IF target \in DOMAIN DictGet(m, "action_to_intent", <<>>)
    THEN m["action_to_intent"][target]
    ELSE target

(***************************************************************************)
(* SpecResolve: resolve_target_id on a target and either the mappings      *)
(* build_intent_mappings makes of a corpus or mappings given by hand.      *)
(***************************************************************************)
MaxResolveIntents == 2     \* most intents of a corpus of SpecResolve

ResolveFeatures ==
    {<<>>,
     [answers |-> List(<<Dict([actions |-> List(<<Dict([action_id |-> Word("S")])>>)])>>)],
     [answers |-> List(<<Dict([actions |-> List(<<Dict([action_id |-> Word("A")])>>)])>>)]}
ResolveIntents ==
    {f @@ sc @@ id :
        id \in {<<>>, [intent_id |-> Word("A")], [intent_id |-> Word("B")],
                [intent_id |-> PyInt(1)]},
        sc \in {<<>>, [symbol_code |-> Word("S")], [symbol_code |-> Word("A")],
                [symbol_code |-> NaN]},
        f \in ResolveFeatures}
ResolveCorpora(max) == SeqsUpTo(ResolveIntents, max)

\* mappings a caller hands to resolve_target_id directly
GivenMappings ==
    {<<>>,
     [action_to_intent |-> (Word("X") :> Word("B"))],
     [all_intent_ids |-> {Word("A")},
      symbol_to_intent |-> (Word("A") :> Word("B")) @@ (Word("S") :> Word("A")),
      action_to_intent |-> (Word("S") :> Word("B")) @@ (Word("X") :> Word("A"))],
     [all_intent_ids |-> {Word("A"), Word("B")},
      action_to_intent |-> (Word("A") :> Word("B"))]}

ResolveTargets ==
    {Word("A"), Word("B"), Word("S"), Word("X"), Word("Z"), Word("1"),
     EmptyStr, PyNone, NaN, PyInt(1)}

InitResolve ==
    /\ \/ rcorpus \in ResolveCorpora(MaxResolveIntents) /\ mappings = EmptyMappings
       \/ rcorpus = <<>> /\ mappings \in GivenMappings
    /\ rpc = "start"
    /\ rtarget = PyNone
    /\ rresult = PyNone
    /\ redirect_map = <<>> /\ IdleCycle /\ IdleExtract /\ IdleGraph /\ IdleAnalytics
    /\ IdleIntentRisk /\ IdleRisk /\ IdleLoad

\* mappings = build_intent_mappings(intents)
BuildIntentMappingsCall ==
    /\ rpc = "start"
    /\ mappings' = BuildIntentMappings(rcorpus)
    /\ rpc' = "mapped"
    /\ UNCHANGED <<rcorpus, rtarget, rresult, besidesResolve>>

\* resolve_target_id(target, mappings), on the mappings as they are
ResolveTargetIdCall ==
    /\ rpc \in {"start", "mapped"}
    /\ \E target \in ResolveTargets :
          /\ rtarget' = target
          /\ rresult' = ResolveTargetId(target, mappings)
    /\ rpc' = "resolved"
    /\ UNCHANGED <<rcorpus, mappings, besidesResolve>>

NextResolve ==
    \/ BuildIntentMappingsCall
    \/ ResolveTargetIdCall

SpecResolve == InitResolve /\ [][NextResolve]_vars

\* the three lookups of resolve_target_id, absent keys of mappings as empty
KnownIntentIds == DictGet(mappings, "all_intent_ids", {})
SymbolToIntent == DictGet(mappings, "symbol_to_intent", <<>>)
ActionToIntent == DictGet(mappings, "action_to_intent", <<>>)

\* C14: resolve_target_id returns the target itself if it is a known
\* intent_id, otherwise the intent_id its symbol_code maps to, otherwise the
\* intent_id its action_id maps to, otherwise the target itself; a string
\* that is the intent_id of one intent of the corpus and the symbol_code of
\* another resolves to itself.
C14_ResolvePrecedence ==
    rpc = "resolved" =>
        /\ rtarget \in KnownIntentIds => rresult = rtarget
        /\ (rtarget \notin KnownIntentIds /\ rtarget \in DOMAIN SymbolToIntent)
              => rresult = SymbolToIntent[rtarget]
        /\ (/\ rtarget \notin KnownIntentIds
            /\ rtarget \notin DOMAIN SymbolToIntent
            /\ rtarget \in DOMAIN ActionToIntent)
              => rresult = ActionToIntent[rtarget]
        /\ (/\ rtarget \notin KnownIntentIds
            /\ rtarget \notin DOMAIN SymbolToIntent
            /\ rtarget \notin DOMAIN ActionToIntent)
              => rresult = rtarget
        /\ (/\ mappings = BuildIntentMappings(rcorpus)
            /\ \E i, j \in 1..Len(rcorpus) :
                  /\ i # j
                  /\ DictGet(rcorpus[i], "intent_id", PyNone) = rtarget
                  /\ DictGet(rcorpus[j], "symbol_code", PyNone) = rtarget)
              => rresult = rtarget

\* the target is the intent_id of the first intent and the symbol_code of
\* the second, whose own intent_id it would otherwise resolve to
C14_Witness ==
    /\ rpc = "resolved"
    /\ Len(rcorpus) = 2
    /\ mappings = BuildIntentMappings(rcorpus)
    /\ DictGet(rcorpus[1], "intent_id", PyNone) = rtarget
    /\ DictGet(rcorpus[2], "symbol_code", PyNone) = rtarget
    /\ rtarget \in DOMAIN SymbolToIntent /\ SymbolToIntent[rtarget] # rtarget
    /\ rresult = rtarget

\* the target was resolved through action_to_intent
C14_WitnessAction ==
    /\ rpc = "resolved"
    /\ rtarget \notin KnownIntentIds /\ rtarget \notin DOMAIN SymbolToIntent
    /\ rtarget \in DOMAIN ActionToIntent /\ rresult # rtarget

(***************************************************************************)
(* calculate_graph_depth, find_isolated_subgraphs and the filter of        *)
(* analyze_graph_structure (utils/graph_analyzer.py)                       *)
(***************************************************************************)
RECURSIVE AdjBothWays(_, _, _)
\* a slip of the adjacency list: every edge entered in both directions
AdjBothWays(edges, i, node) ==
    IF i > Len(edges) THEN <<>>
    ELSE (IF edges[i][1] = node THEN <<edges[i][2]>> ELSE <<>>)
             \o (IF edges[i][2] = node THEN <<edges[i][1]>> ELSE <<>>)
             \o AdjBothWays(edges, i + 1, node)

RECURSIVE Adj(_, _, _)
\* adj[node] of calculate_graph_depth: the targets of the edges that leave
\* node, in the order of edges, from edge i on
Adj(edges, i, node) ==
    IF i > Len(edges) THEN <<>>
    ELSE (IF edges[i][1] = node THEN <<edges[i][2]>> ELSE <<>>)
             \o Adj(edges, i + 1, node)

RECURSIVE EnqueueNeighbors(_, _, _, _, _)
\* for neighbor in adj.get(node, []): the queue and visited after neighbor j on
EnqueueNeighbors(neighbors, j, depth, queue, seen) ==
    IF j > Len(neighbors) THEN [queue |-> queue, visited |-> seen]
    ELSE IF neighbors[j] \in seen
    THEN EnqueueNeighbors(neighbors, j + 1, depth, queue, seen)
    ELSE EnqueueNeighbors(neighbors, j + 1, depth,
             Append(queue, <<neighbors[j], depth + 1>>), seen \cup {neighbors[j]})

RECURSIVE Bfs(_, _, _)
\* while queue: popleft, max_depth = max(max_depth, depth), enqueue neighbours
Bfs(edges, qv, max_depth) ==
    IF qv.queue = <<>> THEN max_depth
    ELSE LET node == Head(qv.queue)[1]
             depth == Head(qv.queue)[2]
         IN  Bfs(edges,
                 EnqueueNeighbors(Adj(edges, 1, node), 1, depth, Tail(qv.queue),
                                  qv.visited),
                 IF depth > max_depth THEN depth ELSE max_depth)

\* the depths list: one BFS per element of entry_points
Depths(g) ==
    [i \in 1..Len(g.entry_points) |->
        Bfs(g.edges, [queue |-> <<<<g.entry_points[i], 0>>>>,
                      visited |-> {g.entry_points[i]}], 0)]

RECURSIVE SumOf(_, _)
SumOf(depths, i) == IF i > Len(depths) THEN 0 ELSE depths[i] + SumOf(depths, i + 1)

MaxOf(depths) == CHOOSE d \in Range(depths) : \A e \in Range(depths) : e <= d
MinOf(depths) == CHOOSE d \in Range(depths) : \A e \in Range(depths) : d <= e

\* round(total / n, 2) in hundredths: the nearest hundredth, a tie to the
\* even one
Round2(total, n) ==
    LET q == (100 * total) \div n
        r == (100 * total) % n
    IN  IF 2 * r < n THEN q
        ELSE IF 2 * r > n THEN q + 1
        ELSE IF q % 2 = 0 THEN q ELSE q + 1

\* dict(zip(entry_points, depths)): a repeated entry keeps its last depth
ZipDict(keys, values) ==
    [e \in Range(keys) |->
        values[CHOOSE i \in 1..Len(keys) :
                   keys[i] = e /\ \A j \in (i + 1)..Len(keys) : keys[j] # e]]

\* calculate_graph_depth(graph); avg_depth is held in hundredths
CalculateGraphDepth(g) ==
    [max_depth |-> IF Depths(g) # <<>> THEN MaxOf(Depths(g)) ELSE 0,
     min_depth |-> IF Depths(g) # <<>> THEN MinOf(Depths(g)) ELSE 0,
     avg_depth |-> IF Depths(g) # <<>>
                   THEN Round2(SumOf(Depths(g), 1), Len(Depths(g))) ELSE 0,
     depths_by_entry |-> ZipDict(g.entry_points, Depths(g))]

\* adj[node] of find_isolated_subgraphs: the set of both-way neighbours
UndirectedAdj(edges, node) ==
    {edges[i][2] : i \in {k \in 1..Len(edges) : edges[k][1] = node}}
        \cup {edges[i][1] : i \in {k \in 1..Len(edges) : edges[k][2] = node}}

\* one iteration order of a set
SomeOrder(S) == CHOOSE q \in Orders(S) : TRUE

RECURSIVE Dfs(_, _, _)
RECURSIVE DfsNeighbors(_, _, _, _)
\* dfs(node, component): visited after the call; the component gains what
\* visited gains
Dfs(edges, node, seen) ==
    DfsNeighbors(edges, SomeOrder(UndirectedAdj(edges, node)), 1, seen \cup {node})

\* for neighbor in adj.get(node, []): if neighbor not in visited: dfs(...)
DfsNeighbors(edges, neighbors, j, seen) ==
    IF j > Len(neighbors) THEN seen
    ELSE IF neighbors[j] \in seen THEN DfsNeighbors(edges, neighbors, j + 1, seen)
    ELSE DfsNeighbors(edges, neighbors, j + 1, Dfs(edges, neighbors[j], seen))

RECURSIVE ComponentsLoop(_, _, _, _, _)
\* for node in nodes, in the iteration order the set has in this run
ComponentsLoop(edges, order, i, seen, comps) ==
    IF i > Len(order) THEN comps
    ELSE IF order[i] \in seen THEN ComponentsLoop(edges, order, i + 1, seen, comps)
    ELSE ComponentsLoop(edges, order, i + 1, Dfs(edges, order[i], seen),
             Append(comps, Dfs(edges, order[i], seen) \ seen))

\* find_isolated_subgraphs(graph) when the set nodes iterates in order
FindIsolatedSubgraphs(g, order) == ComponentsLoop(g.edges, order, 1, {}, <<>>)

\* a slip of the filter: len(c) > 0 for len(c) > 1
IsIsolatedOrSingle(c, entry_points) ==
    Cardinality(c) > 0 /\ ~\E node \in c : InList(node, entry_points)

\* len(c) > 1 and not any(node in graph['entry_points'] for node in c)
IsIsolated(c, entry_points) ==
    Cardinality(c) > 1 /\ ~\E node \in c : InList(node, entry_points)

RECURSIVE Filter(_, _, _)
\* [c for c in components if ...] from component i on
Filter(comps, i, entry_points) ==
    IF i > Len(comps) THEN <<>>
    ELSE (IF IsIsolated(comps[i], entry_points) THEN <<comps[i]>> ELSE <<>>)
             \o Filter(comps, i + 1, entry_points)

(***************************************************************************)
(* SpecAnalytics: the three steps analyze_graph_structure takes after      *)
(* build_graph, on the graphs build_graph can return.                      *)
(***************************************************************************)
MaxGraphNodes == 3     \* most nodes of a graph of SpecAnalytics
MaxEdges == 3          \* most edges
MaxEntries == 3        \* most elements of entry_points

NodeIds == {Word("A"), Word("B"), PyNone}

\* build_graph's nodes are the intent_ids, None for an intent without one
NodeSets(maxNodes) == {ns \in SUBSET NodeIds : Cardinality(ns) <= maxNodes} \ {{}}

\* every edge ends in a node that is a target, so not in None, and starts in
\* a node or in "unknown", the redirect_map key of an intent without
\* intent_id, whose node is None; list(edge_set) repeats no edge
EdgeLists(nodes, maxEdges) ==
    InjSeqsUpTo((nodes \cup (IF PyNone \in nodes THEN {Word("unknown")} ELSE {}))
                    \X (nodes \ {PyNone}),
                maxEdges)

\* entry_points holds nodes, one per intent, so a repeated intent_id repeats
EntryLists(nodes, maxEntries) == SeqsUpTo(nodes, maxEntries)

InitAnalytics ==
    /\ \E nodes \in NodeSets(MaxGraphNodes) :
          \E edges \in EdgeLists(nodes, MaxEdges) :
             \E entry_points \in EntryLists(nodes, MaxEntries) :
                agraph = [nodes |-> nodes, edges |-> edges,
                          entry_points |-> entry_points]
    /\ apc = "built"
    /\ depth_info = <<>>
    /\ components = <<>>
    /\ isolated = <<>>
    /\ is_connected = FALSE
    /\ redirect_map = <<>> /\ IdleCycle /\ IdleExtract /\ IdleGraph /\ IdleResolve
    /\ IdleIntentRisk /\ IdleRisk /\ IdleLoad

\* depth_info = calculate_graph_depth(graph)
CalculateGraphDepthCall ==
    /\ apc = "built"
    /\ depth_info' = CalculateGraphDepth(agraph)
    /\ apc' = "depth"
    /\ UNCHANGED <<agraph, components, isolated, is_connected, besidesAnalytics>>

\* components = find_isolated_subgraphs(graph)
FindIsolatedSubgraphsCall ==
    /\ apc = "depth"
    /\ \E order \in Orders(agraph.nodes) :
          components' = FindIsolatedSubgraphs(agraph, order)
    /\ apc' = "components"
    /\ UNCHANGED <<agraph, depth_info, isolated, is_connected, besidesAnalytics>>

\* isolated = [...]; return {..., 'isolated_subgraphs': isolated,
\* 'is_connected': len(isolated) == 0}
AnalyzeGraphStructureReturn ==
    /\ apc = "components"
    /\ isolated' = Filter(components, 1, agraph.entry_points)
    /\ is_connected' = (Len(Filter(components, 1, agraph.entry_points)) = 0)
    /\ apc' = "done"
    /\ UNCHANGED <<agraph, depth_info, components, besidesAnalytics>>

NextAnalytics ==
    \/ CalculateGraphDepthCall
    \/ FindIsolatedSubgraphsCall
    \/ AnalyzeGraphStructureReturn

SpecAnalytics == InitAnalytics /\ [][NextAnalytics]_vars

\* calculate_graph_depth has returned
DepthKnown == apc \in {"depth", "components", "done"}

RECURSIVE ReachWithin(_, _, _)
\* what k or fewer directed edges reach from e
ReachWithin(edges, e, k) ==
    IF k = 0 THEN {e}
    ELSE ReachWithin(edges, e, k - 1)
             \cup {edges[i][2] : i \in {j \in 1..Len(edges) :
                                          edges[j][1] \in ReachWithin(edges, e, k - 1)}}

\* the shortest hop distance from e to a node v it reaches
HopDistance(edges, e, v) ==
    CHOOSE k \in 0..Len(edges) :
        /\ v \in ReachWithin(edges, e, k)
        /\ \A j \in 0..(k - 1) : v \notin ReachWithin(edges, e, j)

\* the largest shortest hop distance from e over the nodes it reaches
Eccentricity(edges, e) ==
    CHOOSE d \in 0..Len(edges) :
        /\ \E v \in ReachWithin(edges, e, Len(edges)) : HopDistance(edges, e, v) = d
        /\ \A v \in ReachWithin(edges, e, Len(edges)) : HopDistance(edges, e, v) <= d

\* the per-entry depths and the extremes: depths_by_entry[e] is the
\* eccentricity of e, max_depth and min_depth are the largest and the
\* smallest over the entry points, and all three statistics are 0 without
\* entry points
DepthsAndExtremes ==
    LET entry_points == agraph.entry_points
        by_entry == depth_info.depths_by_entry
    IN  /\ DOMAIN by_entry = Range(entry_points)
        /\ \A e \in Range(entry_points) : by_entry[e] = Eccentricity(agraph.edges, e)
        /\ entry_points = <<>> =>
              /\ depth_info.max_depth = 0
              /\ depth_info.min_depth = 0
              /\ depth_info.avg_depth = 0
        /\ entry_points # <<>> =>
              /\ \E e \in Range(entry_points) : depth_info.max_depth = by_entry[e]
              /\ \A e \in Range(entry_points) : by_entry[e] <= depth_info.max_depth
              /\ \E e \in Range(entry_points) : depth_info.min_depth = by_entry[e]
              /\ \A e \in Range(entry_points) : depth_info.min_depth <= by_entry[e]

\* the sum of the depths over the elements of entry_points
TotalDepth ==
    SumOf([i \in 1..Len(agraph.entry_points) |->
              depth_info.depths_by_entry[agraph.entry_points[i]]], 1)

\* C16 as stated: the per-entry depths, max_depth and min_depth as above,
\* and avg_depth (held in hundredths) is the mean of the depths over the
\* entry points.
C16_AvgDepthIsTheMean ==
    DepthKnown =>
        /\ DepthsAndExtremes
        /\ agraph.entry_points # <<>> =>
              depth_info.avg_depth * Len(agraph.entry_points) = 100 * TotalDepth

\* C16 amended: the per-entry depths, max_depth and min_depth as above, and
\* avg_depth is the mean of the depths over the entry points rounded to two
\* decimal places, so it is within half a hundredth of the mean.
C16_AvgDepthIsTheRoundedMean ==
    DepthKnown =>
        /\ DepthsAndExtremes
        /\ agraph.entry_points # <<>> =>
              LET n == Len(agraph.entry_points)
                  diff == depth_info.avg_depth * n - 100 * TotalDepth
              IN  2 * diff <= n /\ -2 * diff <= n

\* three entry points, the deepest of depth 2, and a mean that has no
\* two-decimal form
C16_Witness ==
    /\ DepthKnown
    /\ Len(agraph.entry_points) = 3
    /\ depth_info.max_depth = 2
    /\ depth_info.min_depth = 0
    /\ depth_info.avg_depth = 67
    /\ TotalDepth = 2

\* analyze_graph_structure has returned
Analyzed == apc = "done"

RECURSIVE LinkedWithin(_, _, _)
\* what k or fewer edges, taken in either direction, link to v
LinkedWithin(edges, v, k) ==
    IF k = 0 THEN {v}
    ELSE LinkedWithin(edges, v, k - 1)
             \cup {edges[i][2] : i \in {j \in 1..Len(edges) :
                                          edges[j][1] \in LinkedWithin(edges, v, k - 1)}}
             \cup {edges[i][1] : i \in {j \in 1..Len(edges) :
                                          edges[j][2] \in LinkedWithin(edges, v, k - 1)}}

\* the connected components of the graph, its edges taken as undirected
ConnectedComponents(g) == {LinkedWithin(g.edges, n, Len(g.edges)) : n \in g.nodes}

C17_WitnessConnected ==
    /\ Analyzed
    /\ is_connected
    /\ \E c \in ConnectedComponents(agraph) :
          Cardinality(c) > 1 /\ c \cap Range(agraph.entry_points) # {}

(***************************************************************************)
(* Claims on the text commands, the rule order and the classification      *)
(* (SpecExtract)                                                           *)
(***************************************************************************)
\* _extract_transitions has returned a list for xintent
Extracted == xpc # "start" /\ xresult.err = "none"

\* the five command tokens, in lower case
CommandTokens == {"redirect_to_intent", "goto", "jump_to", "/goto", "call_intent"}

\* the texts of the answers of xintent that are strs
AnswerStrs ==
    LET answers == DictGet(xintent, "answers", EmptyList)
    IN  IF answers.k # "list" THEN {}
        ELSE {answers.l[k].d["answer"] :
                 k \in {j \in 1..Len(answers.l) :
                           /\ IsDict(answers.l[j])
                           /\ "answer" \in DOMAIN answers.l[j].d
                           /\ IsStr(answers.l[j].d["answer"])}}

\* C18: an answer text that opens with one of the five command tokens, in
\* any letter case, followed by a target token yields a text_redirect
\* transition to that target.
C18_CommandTokensMatchInAnyCase ==
    Extracted =>
        \A text \in AnswerStrs :
            (Len(text.s) >= 2 /\ Lower(text.s[1]) \in CommandTokens)
                => \E i \in 1..Len(xresult.val) :
                      /\ xresult.val[i].transition_type = "text_redirect"
                      /\ xresult.val[i].target_id = Word(text.s[2])

\* the rule of _extract_transitions a transition type belongs to, the
\* answer rules 3a..3e counted 3..7
RuleRank(transition_type) ==
    CASE transition_type = "direct_redirect"      -> 1
      [] transition_type = "fallback"             -> 2
      [] transition_type = "answer_redirect"      -> 3
      [] transition_type = "text_redirect"        -> 4
      [] transition_type = "button_action"        -> 5
      [] transition_type = "button_redirect"      -> 6
      [] transition_type = "action_redirect"      -> 7
      [] transition_type = "conditional_redirect" -> 8
      [] transition_type = "intent_match"         -> 9

\* the rank with the answer rules taken as the one rule 3
CoarseRank(transition_type) ==
    IF RuleRank(transition_type) \in 3..7 THEN 3 ELSE RuleRank(transition_type)

\* the transitions are in the order of their ranks
InRankOrder(ts, rank(_)) ==
    \A i, j \in 1..Len(ts) :
        i < j => rank(ts[i].transition_type) <= rank(ts[j].transition_type)

\* a dict with the intent_id of d, if any, and nothing else
IdOnly(d) == [f \in DOMAIN d \cap {"intent_id"} |-> d[f]]

\* the elements of the list under key f of d, none if it is no list
ListItems(d, f) == IF f \in DOMAIN d /\ d[f].k = "list" THEN d[f].l ELSE <<>>

\* the transitions of the intent that has the id of xintent and field f alone
OfField(f) ==
    ExtractTransitions([g \in DOMAIN xintent \cap {"intent_id", f} |-> xintent[g]]).val

RECURSIVE OfEach(_, _, _)
\* the transitions of the elements of the list f of xintent, each extracted
\* alone and joined in the order of the list
OfEach(f, items, i) ==
    IF i > Len(items) THEN <<>>
    ELSE ExtractTransitions(DictSet(IdOnly(xintent), f, List(<<items[i]>>))).val
             \o OfEach(f, items, i + 1)

RECURSIVE OfEachIn(_, _, _, _)
\* the same one level down: the elements of the list g of an answer or
\* filler, each extracted alone under key f
OfEachIn(f, g, items, i) ==
    IF i > Len(items) THEN <<>>
    ELSE ExtractTransitions(
             DictSet(IdOnly(xintent), f,
                     List(<<Dict([h \in {g} |-> List(<<items[i]>>)])>>))).val
             \o OfEachIn(f, g, items, i + 1)

RECURSIVE OfRank(_, _, _)
\* the transitions of ts from i on whose type has rank r
OfRank(ts, i, r) ==
    IF i > Len(ts) THEN <<>>
    ELSE (IF RuleRank(ts[i].transition_type) = r THEN <<ts[i]>> ELSE <<>>)
             \o OfRank(ts, i + 1, r)

\* the dicts among the answers, and among the slot_fillers, of xintent
DictItems(f) ==
    {ListItems(xintent, f)[k] :
        k \in {j \in 1..Len(ListItems(xintent, f)) : IsDict(ListItems(xintent, f)[j])}}

\* C19: the list _extract_transitions returns is the direct_redirect
\* transition, then the fallback transition, then the transitions of each
\* answer in input order, then the conditional_redirect transitions of each
\* filler in input order, then the intent_match transition; the
\* transitions of one answer are in the order 3a, 3b, 3c, 3d, 3e with the
\* buttons and the actions in input order, and those of one filler follow
\* its conditions in input order, then_redirect before else_redirect.
C19_TransitionsFollowRuleOrder ==
    Extracted =>
        /\ InRankOrder(xresult.val, CoarseRank)
        /\ xresult.val = OfField("redirect_to") \o OfField("fallback_intent")
                            \o OfEach("answers", ListItems(xintent, "answers"), 1)
                            \o OfEach("slot_fillers", ListItems(xintent, "slot_fillers"), 1)
                            \o OfField("matched_intent_id")
        /\ \A answer \in DictItems("answers") :
              \A ts \in {OfEach("answers", <<answer>>, 1)} :
                  /\ InRankOrder(ts, RuleRank)
                  /\ OfRank(ts, 1, 6)
                        = OfEachIn("answers", "buttons", ListItems(answer.d, "buttons"), 1)
                  /\ OfRank(ts, 1, 7)
                        = OfEachIn("answers", "actions", ListItems(answer.d, "actions"), 1)
        /\ \A filler \in DictItems("slot_fillers") :
              \A conditions \in {ListItems(filler.d, "conditions")} :
                  /\ OfEach("slot_fillers", <<filler>>, 1)
                        = OfEachIn("slot_fillers", "conditions", conditions, 1)
                  /\ \A k \in 1..Len(conditions) :
                        (/\ IsDict(conditions[k])
                         /\ IsTarget(DictGet(conditions[k].d, "then_redirect", PyNone))
                         /\ IsTarget(DictGet(conditions[k].d, "else_redirect", PyNone)))
                            => [i \in 1..2 |->
                                   OfEachIn("slot_fillers", "conditions",
                                            <<conditions[k]>>, 1)[i].target_id]
                                 = <<conditions[k].d["then_redirect"],
                                     conditions[k].d["else_redirect"]>>

\* every rule fires: a transition of each of the nine types, in rule order
C19_Witness ==
    /\ Extracted
    /\ [i \in 1..Len(xresult.val) |-> RuleRank(xresult.val[i].transition_type)]
          = <<1, 2, 3, 4, 5, 6, 7, 8, 8, 9>>

\* two answers, each with transitions of its own
C19_WitnessTwoAnswers ==
    /\ Extracted
    /\ Len(ListItems(xintent, "answers")) = 2
    /\ \A k \in 1..2 : OfEach("answers", <<ListItems(xintent, "answers")[k]>>, 1) # <<>>
    /\ OfEach("answers", <<ListItems(xintent, "answers")[1]>>, 1)
          # OfEach("answers", <<ListItems(xintent, "answers")[2]>>, 1)

\* the intent_type first_pass gave xintent
IntentTypeGiven ==
    all_data.val.classifications[DictGet(xintent, "intent_id", Word("unknown"))].intent_type

\* kw in str(record_type).lower() / kw in str(title).lower()
RecordTypeHas(kw) ==
    Contains(LowerAll(PyStr(DictGet(xintent, "record_type", EmptyStr))), kw)
TitleHas(kw) == Contains(LowerAll(PyStr(DictGet(xintent, "title", EmptyStr))), kw)

\* field f of xintent is absent or a NaN float
NaNOrAbsent(f) == f \notin DOMAIN xintent \/ xintent[f] = NaN

C20_WitnessNaN ==
    /\ Classified
    /\ "record_type" \in DOMAIN xintent /\ xintent["record_type"] = NaN
    /\ "title" \in DOMAIN xintent /\ xintent["title"] = NaN
    /\ xresult.val # <<>>
    /\ IntentTypeGiven = "dialog_intent"

(***************************************************************************)
(* IntentRisk, analyze_intent_risks and generate_risk_summary              *)
(* (utils/risk_analyzer.py)                                                *)
(***************************************************************************)
\* the values of RiskType
RiskTypes ==
    {"nan_value", "empty_answers", "empty_inputs", "broken_redirect",
     "circular_redirect", "duplicate_id", "duplicate_title", "isolated_subgraph",
     "dead_end", "complex_regex", "missing_record_type"}

\* RISK_SEVERITY_MAP.get(risk_type, RiskSeverity.INFO)
RiskSeverityMap(risk_type) ==
    CASE risk_type \in {"duplicate_id", "broken_redirect", "empty_answers"} -> "critical"
      [] risk_type \in {"circular_redirect", "nan_value", "missing_record_type"} -> "high"
      [] risk_type \in {"empty_inputs", "dead_end"} -> "medium"
      [] risk_type \in {"duplicate_title", "complex_regex"} -> "low"
      [] risk_type = "isolated_subgraph" -> "info"
      [] OTHER -> "info"

\* the list order of _compare_severity
SeverityOrder == <<"info", "low", "medium", "high", "critical">>

\* _compare_severity(s1, s2): order.index(s1) - order.index(s2)
CompareSeverity(s1, s2) == IndexOf(s1, SeverityOrder) - IndexOf(s2, SeverityOrder)

\* IntentRisk(intent_id)
NewIntentRisk(intent_id) == [intent_id |-> intent_id, risks |-> <<>>, severity |-> "info"]

\* a slip of add_risk: the severity of the latest risk, higher or not
AddRiskOverwriting(risk, risk_type) ==
    [risk EXCEPT !.risks = Append(@, risk_type),
                 !.severity = RiskSeverityMap(risk_type)]

\* risk.add_risk(risk_type, description)
AddRisk(risk, risk_type) ==
    [risk EXCEPT !.risks = Append(@, risk_type),
                 !.severity = IF CompareSeverity(RiskSeverityMap(risk_type), @) > 0
                              THEN RiskSeverityMap(risk_type) ELSE @]

(***************************************************************************)
(* SpecIntentRisk: one IntentRisk object and any sequence of add_risk      *)
(* calls on it.                                                            *)
(***************************************************************************)
MaxRisks == 3     \* most add_risk calls on the object

InitIntentRisk ==
    /\ irisk = NewIntentRisk(Word("A"))
    /\ ipc = "live"
    /\ redirect_map = <<>> /\ IdleCycle /\ IdleExtract /\ IdleGraph /\ IdleResolve
    /\ IdleAnalytics /\ IdleRisk /\ IdleLoad

\* irisk.add_risk(risk_type, description)
AddRiskCall ==
    /\ ipc = "live"
    /\ Len(irisk.risks) < MaxRisks
    /\ \E risk_type \in RiskTypes : irisk' = AddRisk(irisk, risk_type)
    /\ UNCHANGED <<ipc, besidesIntentRisk>>

NextIntentRisk == AddRiskCall

SpecIntentRisk == InitIntentRisk /\ [][NextIntentRisk]_vars

\* the position of a severity in INFO < LOW < MEDIUM < HIGH < CRITICAL
Level(severity) ==
    CASE severity = "info" -> 0
      [] severity = "low" -> 1
      [] severity = "medium" -> 2
      [] severity = "high" -> 3
      [] severity = "critical" -> 4

\* the levels of the risks added so far
AddedLevels == {Level(RiskSeverityMap(irisk.risks[i])) : i \in 1..Len(irisk.risks)}

\* C21: the severity of an IntentRisk is the highest level among the risk
\* types added so far, INFO when none was added; so a duplicate id makes it
\* CRITICAL, a missing record_type with nothing worse HIGH, empty inputs
\* alone MEDIUM.
C21_SeverityIsTheMaximumAdded ==
    ipc = "live" =>
        /\ \A l \in AddedLevels : l <= Level(irisk.severity)
        /\ Level(irisk.severity) \in AddedLevels \cup {0}
        /\ irisk.severity \in Range(SeverityOrder)
        /\ InList("duplicate_id", irisk.risks) => irisk.severity = "critical"
        /\ (InList("missing_record_type", irisk.risks) /\ 4 \notin AddedLevels)
              => irisk.severity = "high"
        /\ (irisk.risks # <<>> /\ Range(irisk.risks) = {"empty_inputs"})
              => irisk.severity = "medium"

\* a risk of a lower level was added after one of a higher level
C21_Witness ==
    /\ ipc = "live"
    /\ Len(irisk.risks) = 3
    /\ irisk.risks[1] = "empty_inputs"
    /\ irisk.risks[2] = "missing_record_type"
    /\ irisk.risks[3] = "duplicate_title"
    /\ irisk.severity = "high"

\* the part of C21 on steps: an add_risk call never lowers the severity and
\* keeps every risk added before
C21_SeverityNeverDecreases ==
    [][/\ Level(irisk'.severity) >= Level(irisk.severity)
       /\ Len(irisk'.risks) = Len(irisk.risks) + 1
       /\ \A i \in 1..Len(irisk.risks) : irisk'.risks[i] = irisk.risks[i]]_vars

\* value.upper() on the words of the inputs
Upper(w) ==
    CASE w \in {"NaN", "nan", "NAN"} -> "NAN"
      [] w \in {"None", "none", "NONE"} -> "NONE"
      [] w \in {"null", "NULL"} -> "NULL"
      [] w \in {"main", "Main"} -> "MAIN"
      [] OTHER -> w

\* value.upper() in names, for a str value: '' is the empty string, a string
\* of several words is none of the names
UpperIn(v, names) ==
    \/ v.s = <<>> /\ "" \in names
    \/ Len(v.s) = 1 /\ Upper(v.s[1]) \in names

\* _is_nan_or_empty(value)
IsNanOrEmpty(value) ==
    \/ value = PyNone
    \/ value = NaN
    \/ IsStr(value) /\ UpperIn(value, {"NAN", "NONE", "NULL", ""})

\* _is_explicit_nan(value)
IsExplicitNan(value) ==
    /\ value # PyNone
    /\ \/ value = NaN
       \/ IsStr(value) /\ UpperIn(value, {"NAN"})

\* risks = {}
EmptyRisks == [keys |-> <<>>, at |-> <<>>]

RECURSIVE InitRisks(_, _, _)
\* risks[intent_id] = IntentRisk(intent_id) for the intents from position i
InitRisks(risk_map, corpus, i) ==
    IF i > Len(corpus) THEN risk_map
    ELSE LET intent_id == DictGet(corpus[i], "intent_id", Word("unknown"))
         IN  InitRisks([keys |-> IF InList(intent_id, risk_map.keys) THEN risk_map.keys
                                 ELSE Append(risk_map.keys, intent_id),
                        at |-> DictSet(risk_map.at, intent_id, NewIntentRisk(intent_id))],
                       corpus, i + 1)

\* if intent_id in risks: risks[intent_id].add_risk(risk_type, ...)
AddIfKnown(risk_map, intent_id, risk_type) ==
    IF InList(intent_id, risk_map.keys)
    THEN [risk_map EXCEPT !.at[intent_id] = AddRisk(@, risk_type)]
    ELSE risk_map

RECURSIVE AddEach(_, _, _, _)
\* the loop `for intent_id in ids: if intent_id in risks: ...add_risk(...)`
AddEach(risk_map, ids, i, risk_type) ==
    IF i > Len(ids) THEN risk_map
    ELSE AddEach(AddIfKnown(risk_map, ids[i], risk_type), ids, i + 1, risk_type)

RECURSIVE AddEachOfEach(_, _, _, _, _)
\* the same loop over a list of lists of ids (titles, cycles, components),
\* without the last drop members of each list (cycle[:-1])
AddEachOfEach(risk_map, lists, i, drop, risk_type) ==
    IF i > Len(lists) THEN risk_map
    ELSE AddEachOfEach(AddEach(risk_map, SubSeq(lists[i], 1, Len(lists[i]) - drop), 1,
                               risk_type),
                       lists, i + 1, drop, risk_type)

RECURSIVE NanRisks(_, _, _)
\* block 3: record_type and the optional fields of each intent
NanRisks(risk_map, corpus, i) ==
    IF i > Len(corpus) THEN risk_map
    ELSE LET intent == corpus[i]
             intent_id == DictGet(intent, "intent_id", Word("unknown"))
             missing == IsNanOrEmpty(DictGet(intent, "record_type", PyNone))
             nan_fields == {f \in {"intent_settings", "routing_params", "topics"} :
                               IsExplicitNan(DictGet(intent, f, PyNone))}
             r1 == IF missing
                   THEN [risk_map EXCEPT !.at[intent_id] = AddRisk(@, "missing_record_type")]
                   ELSE risk_map
         IN  NanRisks(IF nan_fields # {}
                      THEN [r1 EXCEPT !.at[intent_id] = AddRisk(@, "nan_value")]
                      ELSE r1,
                      corpus, i + 1)

\* the source_id of each (source_id, target_id)
Sources(pairs) == [i \in 1..Len(pairs) |-> pairs[i][1]]

RECURSIVE RisksAfter(_, _, _)
\* analyze_intent_risks(intents, validation_results), block after block
RisksAfter(block, corpus, vr) ==
    CASE block = 0 -> InitRisks(EmptyRisks, corpus, 1)
      [] block = 1 -> AddEach(RisksAfter(0, corpus, vr), vr.duplicates, 1, "duplicate_id")
      [] block = 2 -> AddEachOfEach(RisksAfter(1, corpus, vr), vr.duplicate_titles, 1, 0,
                                    "duplicate_title")
      [] block = 3 -> NanRisks(RisksAfter(2, corpus, vr), corpus, 1)
      [] block = 4 -> AddEach(AddEach(RisksAfter(3, corpus, vr), vr.empty_answers, 1,
                                      "empty_answers"),
                              vr.empty_inputs, 1, "empty_inputs")
      [] block = 5 -> AddEach(RisksAfter(4, corpus, vr), Sources(vr.broken_redirects), 1,
                              "broken_redirect")
      [] block = 6 -> AddEachOfEach(RisksAfter(5, corpus, vr), vr.cycles, 1, 1,
                                    "circular_redirect")
      [] block = 7 -> AddEach(RisksAfter(6, corpus, vr), vr.dead_ends, 1, "dead_end")
      [] block = 8 -> AddEachOfEach(RisksAfter(7, corpus, vr), vr.isolated_subgraphs, 1, 0,
                                    "isolated_subgraph")

AnalyzeIntentRisks(corpus, vr) == RisksAfter(8, corpus, vr)

\* the number of risk objects whose severity is the given one
SeverityCount(risk_map, severity) ==
    Cardinality({i \in 1..Len(risk_map.keys) : risk_map.at[risk_map.keys[i]].severity = severity})

\* the number of (risk_type, description) entries of the given type
RiskTypeCount(risk_map, risk_type) ==
    LET hits(r) == Cardinality({j \in 1..Len(r.risks) : r.risks[j] = risk_type})
        total[i \in 0..Len(risk_map.keys)] ==
            IF i = 0 THEN 0 ELSE total[i - 1] + hits(risk_map.at[risk_map.keys[i]])
    IN  total[Len(risk_map.keys)]

\* a slip of the score: the max(0, ...) left out
RiskScoreUnclamped(critical_count, high_count, total_intents) ==
    IF total_intents > 0
    THEN 100 - (((critical_count * 25 + high_count * 10) * 100) \div total_intents)
    ELSE 100

\* the risk_score of generate_risk_summary
RiskScore(critical_count, high_count, total_intents) ==
    IF total_intents > 0
    THEN LET score == 100 - (((critical_count * 25 + high_count * 10) * 100) \div total_intents)
         IN  IF score > 0 THEN score ELSE 0
    ELSE 100

\* the keys whose risk object has the given severity, in the order of the dict
KeysOfSeverity(risk_map, severity) ==
    SelectSeq(risk_map.keys, LAMBDA k : risk_map.at[k].severity = severity)

\* generate_risk_summary(risks)
GenerateRiskSummary(risk_map) ==
    [total_intents |-> Len(risk_map.keys),
     risk_score |-> RiskScore(SeverityCount(risk_map, "critical"),
                              SeverityCount(risk_map, "high"), Len(risk_map.keys)),
     severity_distribution |->
         [s \in {s \in Range(SeverityOrder) : SeverityCount(risk_map, s) > 0}
             |-> SeverityCount(risk_map, s)],
     risk_type_distribution |->
         [t \in {t \in RiskTypes : RiskTypeCount(risk_map, t) > 0} |-> RiskTypeCount(risk_map, t)],
     critical_intents |-> KeysOfSeverity(risk_map, "critical"),
     high_risk_intents |-> KeysOfSeverity(risk_map, "high")]

(***************************************************************************)
(* SpecRisk: analyze_intent_risks on a corpus and the findings of its      *)
(* validators, then generate_risk_summary on the risks.                    *)
(***************************************************************************)
MaxRiskIntents == 3   \* most intents of the corpus that carry findings
MaxFindings == 2      \* most findings of the validators
MaxPlain == 12        \* most further intents without any finding

\* the intents that can carry findings
RiskRecords ==
    {[intent_id |-> Word("A"), record_type |-> Word("main")],
     [intent_id |-> Word("A")],
     [intent_id |-> Word("A"), record_type |-> Word("main"), topics |-> NaN],
     [intent_id |-> Word("B"), record_type |-> Word("main")],
     [intent_id |-> Word("B"), record_type |-> Word("NaN")],
     [intent_id |-> Word("C"), record_type |-> Word("main"), topics |-> PyNone],
     [record_type |-> Word("main")]}

PlainIds == <<"P1", "P2", "P3", "P4", "P5", "P6", "P7", "P8", "P9", "P10", "P11", "P12">>

\* n further intents with a record_type and distinct ids
PlainIntents(n) ==
    [i \in 1..n |-> [intent_id |-> Word(PlainIds[i]), record_type |-> Word("main")]]

PlainCounts == {0, 8, MaxPlain}

FindingKinds ==
    {"duplicates", "duplicate_titles", "empty_answers", "empty_inputs",
     "broken_redirects", "cycles", "dead_ends", "isolated_subgraphs"}

FindingIds == <<Word("A"), Word("B")>>

\* the ids the findings of one kind name, in corpus order
IdsOf(findings, kind) == SelectSeq(FindingIds, LAMBDA id : <<kind, id>> \in findings)

\* each id as a list of its own
Singly(ids) == [i \in 1..Len(ids) |-> <<ids[i]>>]

\* the validation_results that report the findings: a title of one intent, a
\* redirect to a missing X, a self-loop, a component of one node
ValidationResults(findings) ==
    [duplicates |-> IdsOf(findings, "duplicates"),
     duplicate_titles |-> Singly(IdsOf(findings, "duplicate_titles")),
     empty_answers |-> IdsOf(findings, "empty_answers"),
     empty_inputs |-> IdsOf(findings, "empty_inputs"),
     broken_redirects |->
         [i \in 1..Len(IdsOf(findings, "broken_redirects"))
             |-> <<IdsOf(findings, "broken_redirects")[i], Word("X")>>],
     cycles |->
         [i \in 1..Len(IdsOf(findings, "cycles"))
             |-> <<IdsOf(findings, "cycles")[i], IdsOf(findings, "cycles")[i]>>],
     dead_ends |-> IdsOf(findings, "dead_ends"),
     isolated_subgraphs |-> Singly(IdsOf(findings, "isolated_subgraphs"))]

FindingSets ==
    {f \in SUBSET (FindingKinds \X Range(FindingIds)) : Cardinality(f) <= MaxFindings}

InitRisk ==
    /\ \E records \in InjSeqsUpTo(RiskRecords, MaxRiskIntents) :
           \E n \in PlainCounts : risk_intents = records \o PlainIntents(n)
    /\ \E findings \in FindingSets : validation_results = ValidationResults(findings)
    /\ risks = <<>>
    /\ summary = <<>>
    /\ kpc = "start"
    /\ redirect_map = <<>> /\ IdleCycle /\ IdleExtract /\ IdleGraph /\ IdleResolve
    /\ IdleAnalytics /\ IdleIntentRisk /\ IdleLoad

\* risks = analyze_intent_risks(intents, validation_results)
AnalyzeIntentRisksCall ==
    /\ kpc = "start"
    /\ risks' = AnalyzeIntentRisks(risk_intents, validation_results)
    /\ kpc' = "analyzed"
    /\ UNCHANGED <<risk_intents, validation_results, summary, besidesRisk>>

\* summary = generate_risk_summary(risks)
GenerateRiskSummaryCall ==
    /\ kpc = "analyzed"
    /\ summary' = GenerateRiskSummary(risks)
    /\ kpc' = "summarized"
    /\ UNCHANGED <<risk_intents, validation_results, risks, besidesRisk>>

NextRisk == AnalyzeIntentRisksCall \/ GenerateRiskSummaryCall

SpecRisk == InitRisk /\ [][NextRisk]_vars

\* the intents (risk objects) whose final severity is the given one
IntentsOfSeverity(severity) == {id \in Range(risks.keys) : risks.at[id].severity = severity}

\* the sum of the counts of a distribution
DistributionSum(dist) ==
    LET order == SeverityOrder
        total[i \in 0..Len(order)] ==
            IF i = 0 THEN 0
            ELSE total[i - 1] + (IF order[i] \in DOMAIN dist THEN dist[order[i]] ELSE 0)
    IN  total[Len(order)]

\* C22: the risk_score of generate_risk_summary is an integer in 0..100,
\* namely max(0, 100 - ((25*critical + 10*high) * 100 // total_intents)) with
\* the intents counted by final severity; it is 100 when no intent is
\* CRITICAL or HIGH and when there are no intents, 0 for three intents with
\* one CRITICAL and one HIGH, and the counts of severity_distribution add up
\* to total_intents.
C22_RiskScoreFormula ==
    kpc = "summarized" =>
        LET critical == Cardinality(IntentsOfSeverity("critical"))
            high == Cardinality(IntentsOfSeverity("high"))
            total_intents == summary.total_intents
            penalty == IF total_intents > 0
                       THEN ((25 * critical + 10 * high) * 100) \div total_intents ELSE 0
        IN  /\ summary.risk_score \in 0..100
            /\ total_intents = Cardinality(Range(risks.keys))
            /\ total_intents > 0 =>
                  summary.risk_score = (IF penalty >= 100 THEN 0 ELSE 100 - penalty)
            /\ (critical = 0 /\ high = 0) => summary.risk_score = 100
            /\ total_intents = 0 => summary.risk_score = 100
            /\ (total_intents = 3 /\ critical = 1 /\ high = 1) => summary.risk_score = 0
            /\ DistributionSum(summary.severity_distribution) = total_intents

\* three intents, one CRITICAL and one HIGH: the score is 0
C22_Witness ==
    /\ kpc = "summarized"
    /\ summary.total_intents = 3
    /\ Cardinality(IntentsOfSeverity("critical")) = 1
    /\ Cardinality(IntentsOfSeverity("high")) = 1
    /\ summary.risk_score = 0

\* one HIGH intent among eleven: the floor division leaves a score of 10
C22_WitnessBetween ==
    /\ kpc = "summarized"
    /\ summary.total_intents = 11
    /\ Cardinality(IntentsOfSeverity("high")) = 1
    /\ Cardinality(IntentsOfSeverity("critical")) = 0
    /\ summary.risk_score = 10

(***************************************************************************)
(* The result of validate_redirects (SpecGraph)                            *)
(***************************************************************************)
\* validate_redirects has returned
Validated == gpc # "start" /\ raised_in # "run_all_validations"

\* the key validate_redirects files intent i under
SourceKey(i) == DictGet(intents[i], "intent_id", Word("unknown"))

\* the answer texts of intent i that are strings
StrAnswerTexts(i) ==
    LET answers == DictGet(intents[i], "answers", EmptyList)
    IN  IF answers.k # "list" THEN <<>>
        ELSE SelectSeq([a \in 1..Len(answers.l) |-> DictGet(answers.l[a].d, "answer", EmptyStr)],
                       IsStr)

\* the targets t for which the text holds 'REDIRECT_TO_INTENT t', by position
TargetsInText(text) ==
    LET words == text.s
        at == SelectSeq([j \in 1..Len(words) |-> j],
                        LAMBDA j : j < Len(words) /\ EndsWith(words[j], "REDIRECT_TO_INTENT"))
    IN  [n \in 1..Len(at) |-> Word(words[at[n] + 1])]

\* the targets of the texts from text a on, in order of appearance
RECURSIVE TargetsOfTexts(_, _)
TargetsOfTexts(texts, a) ==
    IF a > Len(texts) THEN <<>> ELSE TargetsInText(texts[a]) \o TargetsOfTexts(texts, a + 1)

\* the targets of the intents filed under source from intent i on
RECURSIVE TargetsOfSource(_, _)
TargetsOfSource(source, i) ==
    IF i > Len(intents) THEN <<>>
    ELSE (IF SourceKey(i) = source THEN TargetsOfTexts(StrAnswerTexts(i), 1) ELSE <<>>)
            \o TargetsOfSource(source, i + 1)

\* target is the intent_id of some intent of the corpus
IsCorpusIntentId(target) ==
    \E i \in 1..Len(intents) :
        "intent_id" \in DOMAIN intents[i] /\ intents[i]["intent_id"] = target

\* C23: validate_redirects puts (source, target) in broken_redirects exactly
\* when an answer text of an intent filed under source holds
\* 'REDIRECT_TO_INTENT target' and target is no intent_id of the corpus;
\* redirect_map[source] lists all the targets of source in order of
\* appearance; broken_count is the length of broken_redirects and is_valid
\* says that it is 0.
C23_BrokenRedirectsAreTheMissingTargets ==
    Validated =>
        LET sources == {SourceKey(i) : i \in 1..Len(intents)}
            broken == Range(redirects.broken_redirects)
        IN  /\ \A pair \in broken :
                  /\ pair[1] \in sources
                  /\ InList(pair[2], TargetsOfSource(pair[1], 1))
                  /\ ~IsCorpusIntentId(pair[2])
            /\ \A source \in sources :
                  /\ \A target \in Range(TargetsOfSource(source, 1)) :
                        ~IsCorpusIntentId(target) => <<source, target>> \in broken
                  /\ MapGet(redirect_map, source) = TargetsOfSource(source, 1)
            /\ Range(redirect_map.keys) \subseteq sources
            /\ redirects.broken_count = Len(redirects.broken_redirects)
            /\ redirects.is_valid <=> redirects.broken_count = 0

\* intent A redirects to Z, A and B in this order; B is the other intent of
\* the corpus and Z is missing
C23_Witness ==
    /\ Validated
    /\ Len(intents) = 2
    /\ SourceKey(1) = Word("A")
    /\ "intent_id" \in DOMAIN intents[2] /\ intents[2]["intent_id"] = Word("B")
    /\ MapGet(redirect_map, Word("A")) = <<Word("Z"), Word("A"), Word("B")>>
    /\ redirects.broken_redirects = <<<<Word("A"), Word("Z")>>>>
    /\ ~redirects.is_valid

\* the redirect names the intent whose id is the number 1 by the string "1"
C23_WitnessNumberId ==
    /\ Validated
    /\ Len(intents) = 1
    /\ "intent_id" \in DOMAIN intents[1] /\ intents[1]["intent_id"] = PyInt(1)
    /\ redirects.broken_redirects = <<<<PyInt(1), Word("1")>>>>

(***************************************************************************)
(* Duplicate symbol_codes and the action_id lookup (SpecResolve)           *)
(***************************************************************************)
\* build_intent_mappings has made the mappings of the corpus
MappingsBuilt == rpc # "start" /\ mappings = BuildIntentMappings(rcorpus)

\* the intent_id and the symbol_code build_intent_mappings reads of intent i
IdOf(i) == SafeStr(DictGet(rcorpus[i], "intent_id", PyNone), EmptyStr)
CodeOf(i) == SafeStr(DictGet(rcorpus[i], "symbol_code", PyNone), EmptyStr)

\* the intents with a non-empty intent_id whose symbol_code is s
Sharers(s) == {i \in 1..Len(rcorpus) : CodeOf(i) = s /\ Truthy(IdOf(i))}

\* the last position of a non-empty set of positions
LastOf(positions) == CHOOSE i \in positions : \A j \in positions : j <= i

\* C24: among the intents with a non-empty intent_id that share a
\* symbol_code s, the last one in corpus order gives symbol_to_intent[s], and
\* resolve_target_id(s) returns its intent_id unless s is a known intent_id.
C24_LastSymbolCodeWins ==
    MappingsBuilt =>
        \A s \in {CodeOf(i) : i \in 1..Len(rcorpus)} :
            (Truthy(s) /\ Sharers(s) # {}) =>
                /\ s \in DOMAIN SymbolToIntent
                /\ SymbolToIntent[s] = IdOf(LastOf(Sharers(s)))
                /\ (rpc = "resolved" /\ rtarget = s /\ s \notin KnownIntentIds)
                      => rresult = IdOf(LastOf(Sharers(s)))

\* two intents A and B share the symbol_code S, which resolves to B
C24_Witness ==
    /\ MappingsBuilt
    /\ rpc = "resolved"
    /\ Len(rcorpus) = 2
    /\ IdOf(1) = Word("A") /\ IdOf(2) = Word("B")
    /\ CodeOf(1) = Word("S") /\ CodeOf(2) = Word("S")
    /\ rtarget = Word("S")
    /\ rresult = Word("B")

\* the dict actions of the dict answers of intent i
ActionsOf(i) ==
    LET answers == SafeList(DictGet(rcorpus[i], "answers", EmptyList))
    IN  UNION {{a \in Range(SafeList(DictGet(answer.d, "actions", EmptyList)).l) : IsDict(a)} :
                  answer \in {x \in Range(answers.l) : IsDict(x)}}

\* intent i holds an action whose action_id is a
HoldsAction(i, a) == \E action \in ActionsOf(i) : DictGet(action.d, "action_id", EmptyStr) = a

\* C25: action_to_intent[a] is recorded only for an action_id a equal to the
\* symbol_code of the intent that holds the action, so every key of
\* action_to_intent is a key of symbol_to_intent, and resolve_target_id
\* returns for every target what it returns with an empty action_to_intent.
C25_ActionLookupNeverDecides ==
    MappingsBuilt =>
        /\ \A a \in DOMAIN ActionToIntent :
              /\ \E i \in 1..Len(rcorpus) :
                    Truthy(IdOf(i)) /\ CodeOf(i) = a /\ HoldsAction(i, a)
              /\ a \in DOMAIN SymbolToIntent
        /\ rpc = "resolved" =>
              rresult = ResolveTargetId(rtarget, [mappings EXCEPT !.action_to_intent = <<>>])
        /\ \A t \in ResolveTargets :
              ResolveTargetId(t, mappings)
                  = ResolveTargetId(t, [mappings EXCEPT !.action_to_intent = <<>>])

\* intent A holds an action whose action_id is its own symbol_code S: the
\* entry is recorded, and S resolves through symbol_to_intent
C25_Witness ==
    /\ MappingsBuilt
    /\ rpc = "resolved"
    /\ Word("S") \in DOMAIN ActionToIntent
    /\ rtarget = Word("S")
    /\ rresult = Word("A")

\* intent A holds an action whose action_id is the symbol_code of intent B
\* only: no entry is recorded
C25_WitnessOtherIntent ==
    /\ MappingsBuilt
    /\ Len(rcorpus) = 2
    /\ IdOf(1) = Word("A") /\ CodeOf(1) = EmptyStr /\ HoldsAction(1, Word("S"))
    /\ IdOf(2) = Word("B") /\ CodeOf(2) = Word("S") /\ ActionsOf(2) = {}
    /\ ActionToIntent = <<>>

(***************************************************************************)
(* load_intents (utils/loaders.py)                                         *)
(*                                                                         *)
(* A line of the file is known by what json.loads makes of it after        *)
(* strip(): "blank", "comment" (starts with # or //), "dict" (one JSON     *)
(* object), "value" (valid JSON that is no object), or "error"             *)
(* (JSONDecodeError), with the number of objects the raw_decode loop       *)
(* recovers from it.  The objects carry no expiry date, so _apply_filters  *)
(* returns all of them.                                                    *)
(***************************************************************************)
MaxFileLines == 3    \* most lines of a file
MaxRecovered == 2    \* most objects recovered from one line
MaxArray == 3        \* most objects of a JSON array file
MaxLimit == 2        \* largest max_lines

FileLines ==
    {[first |-> k, recovered |-> 0] : k \in {"blank", "comment", "dict", "value"}}
        \cup {[first |-> "error", recovered |-> n] : n \in 0..MaxRecovered}

\* a missing file, a JSON array of n objects spread over lines, a file of lines
Files ==
    {[exists |-> FALSE, array |-> 0, lines |-> <<>>]}
        \cup {[exists |-> TRUE, array |-> n, lines |-> <<>>] : n \in 1..MaxArray}
        \cup {[exists |-> TRUE, array |-> 0, lines |-> l] : l \in SeqsUpTo(FileLines, MaxFileLines)}

\* errors = {'empty': 0, 'fixed': 0, 'skipped': 0, 'success': 0}
NoErrors == [empty |-> 0, fixed |-> 0, skipped |-> 0, success |-> 0]

\* the lines that hold more than white space
TextLines(lines) == SelectSeq(lines, LAMBDA l : l.first # "blank")

\* json.load(f) returns: the whole text is one JSON value
WholeParses(lines) ==
    Len(TextLines(lines)) = 1 /\ TextLines(lines)[1].first \in {"dict", "value"}

\* the records k objects of line n make
Records(n, k) == [i \in 1..k |-> <<n, i>>]

\* data[:max_lines]
Take(list, n) == SubSeq(list, 1, IF n < Len(list) THEN n ELSE Len(list))

\* _build_metadata(filepath, intents, errors, total_lines)
BuildMetadata(intent_list, counters, lines_read) ==
    [total_loaded |-> Len(intent_list),
     total_lines_processed |-> lines_read,
     parsing_stats |-> [success |-> counters.success, fixed_extra_data |-> counters.fixed,
                        skipped_empty |-> counters.empty, skipped_invalid |-> counters.skipped]]

InitLoad ==
    /\ lfile \in Files
    /\ max_lines \in 1..MaxLimit
    /\ total_lines = 0
    /\ loaded = <<>>
    /\ errors = NoErrors
    /\ metadata = <<>>
    /\ lpc = "start"
    /\ redirect_map = <<>> /\ IdleCycle /\ IdleExtract /\ IdleGraph /\ IdleResolve
    /\ IdleAnalytics /\ IdleIntentRisk /\ IdleRisk

\* `if not os.path.exists(filepath): return [], {}`
LoadMissingFile ==
    /\ lpc = "start"
    /\ ~lfile.exists
    /\ lpc' = "returned"
    /\ UNCHANGED <<lfile, max_lines, total_lines, loaded, errors, metadata, besidesLoad>>

\* attempt 1 on a JSON array: intents = data[:max_lines], and the return
LoadJsonArray ==
    /\ lpc = "start"
    /\ lfile.exists /\ lfile.array > 0
    /\ loaded' = Take(Records(0, lfile.array), max_lines)
    /\ errors' = [errors EXCEPT !.success = Len(loaded')]
    /\ metadata' = BuildMetadata(loaded', errors', total_lines)
    /\ lpc' = "returned"
    /\ UNCHANGED <<lfile, max_lines, total_lines, besidesLoad>>

\* attempt 1 on a file of lines whose whole text is one JSON object:
\* intents = [data], and the return
LoadSingleDict ==
    /\ lpc = "start"
    /\ lfile.exists /\ lfile.array = 0
    /\ WholeParses(lfile.lines) /\ TextLines(lfile.lines)[1].first = "dict"
    /\ loaded' = Records(0, 1)
    /\ errors' = [errors EXCEPT !.success = 1]
    /\ metadata' = BuildMetadata(loaded', errors', total_lines)
    /\ lpc' = "returned"
    /\ UNCHANGED <<lfile, max_lines, total_lines, besidesLoad>>

\* attempt 1 gives no intents (JSONDecodeError, or one JSON value that is no
\* object): attempt 2 opens the file
LoadStartLines ==
    /\ lpc = "start"
    /\ lfile.exists /\ lfile.array = 0
    /\ ~(WholeParses(lfile.lines) /\ TextLines(lfile.lines)[1].first = "dict")
    /\ lpc' = "lines"
    /\ UNCHANGED <<lfile, max_lines, total_lines, loaded, errors, metadata, besidesLoad>>

\* one iteration of `for line_num, line in enumerate(f, 1)`: the branches for
\* blank lines, comments and lines json.loads accepts end in `continue`; only
\* the recovery branch reaches `if len(intents) >= max_lines: break`
ReadLine ==
    /\ lpc = "lines"
    /\ total_lines < Len(lfile.lines)
    /\ total_lines' = total_lines + 1
    /\ LET line == lfile.lines[total_lines + 1]
       IN  CASE line.first \in {"blank", "comment"} ->
                   /\ errors' = [errors EXCEPT !.empty = @ + 1]
                   /\ UNCHANGED <<loaded, lpc>>
             [] line.first = "dict" ->
                   /\ loaded' = loaded \o Records(total_lines + 1, 1)
                   /\ errors' = [errors EXCEPT !.success = @ + 1]
                   /\ UNCHANGED lpc
             [] line.first = "value" ->
                   UNCHANGED <<loaded, errors, lpc>>
             [] line.first = "error" ->
                   /\ loaded' = loaded \o Records(total_lines + 1, line.recovered)
                   /\ errors' = [errors EXCEPT !.fixed = @ + line.recovered,
                                               !.skipped = IF line.recovered = 0 THEN @ + 1 ELSE @]
                   /\ lpc' = IF Len(loaded') >= max_lines THEN "stopped" ELSE "lines"
    /\ UNCHANGED <<lfile, max_lines, metadata, besidesLoad>>

\* after the loop: the metadata when there are intents, `return [], {}` else
LoadReturn ==
    /\ \/ lpc = "lines" /\ total_lines = Len(lfile.lines)
       \/ lpc = "stopped"
    /\ metadata' = IF loaded # <<>> THEN BuildMetadata(loaded, errors, total_lines) ELSE <<>>
    /\ lpc' = "returned"
    /\ UNCHANGED <<lfile, max_lines, total_lines, loaded, errors, besidesLoad>>

NextLoad ==
    \/ LoadMissingFile
    \/ LoadJsonArray
    \/ LoadSingleDict
    \/ LoadStartLines
    \/ ReadLine
    \/ LoadReturn

SpecLoad == InitLoad /\ [][NextLoad]_vars

\* the records collected before the line that gave the last record
BeforeLastLine ==
    LET last == loaded[Len(loaded)][1]
    IN  Cardinality({i \in 1..Len(loaded) : loaded[i][1] < last})

\* C26: in the line-by-line path reading stops once max_lines records are
\* collected: a line is read only while fewer than max_lines records are
\* held, so the records loaded exceed max_lines by at most the further
\* objects of the line on which the limit was reached.
C26_ReadingStopsAtMaxLines ==
    (lpc = "returned" /\ total_lines > 0 /\ loaded # <<>>) => BeforeLastLine < max_lines

(***************************************************************************)
(* Termination and the cycles of detect_circular_redirects (SpecCycle)     *)
(***************************************************************************)
\* the run of detect_circular_redirects is never suspended: the interpreter
\* takes the next step of the traversal as long as there is one
SpecCycleFair == SpecCycle /\ WF_vars(NextCycle)

\* the step expands the node of the top frame: past both tests of dfs
Expands ==
    /\ stack # <<>> /\ Top.i = 0
    /\ Len(stack') = Len(stack) /\ stack'[Len(stack')].i = 1

\* the step begins the traversal from the next start node
StartsTraversal == start' = start + 1

\* C27: detect_circular_redirects terminates on every finite adjacency map,
\* and within the traversal from one start node every node is expanded at
\* most once: a node is expanded only while it is not in visited, the
\* expansion puts it there, and visited loses nodes only when the next
\* traversal begins.
C27_TerminatesExpandingOnce ==
    /\ <>(cpc = "done")
    /\ [][/\ Expands => (Top.node \notin visited /\ visited' = visited \cup {Top.node})
          /\ (~Expands /\ ~StartsTraversal) => visited' = visited]_vars

\* a finished run on a map with a self-loop, a target that is no key and two
\* cycles through one node
C27_Witness ==
    /\ cpc = "done"
    /\ \E n \in Range(redirect_map.keys) : InList(n, MapGet(redirect_map, n))
    /\ \E n \in Range(redirect_map.keys) :
          \E t \in Range(MapGet(redirect_map, n)) : ~InList(t, redirect_map.keys)
    /\ Len(cycles) >= 2
    /\ \E i, j \in 1..Len(cycles) :
          i # j /\ CycleNodeSet(cycles[i]) \cap CycleNodeSet(cycles[j]) # {}

\* the keys and the targets of the adjacency map
MapNodes ==
    Range(redirect_map.keys)
        \cup UNION {Range(MapGet(redirect_map, n)) : n \in Range(redirect_map.keys)}

\* the nodes one edge after a node of the set
Successors(nodes) == UNION {Range(MapGet(redirect_map, n)) : n \in nodes}

RECURSIVE ReachedIn(_, _)
\* the nodes of the set and those at most k edges after them
ReachedIn(nodes, k) ==
    IF k = 0 THEN nodes ELSE ReachedIn(nodes \cup Successors(nodes), k - 1)

\* node lies on a directed cycle of the map: it is reached from itself along
\* one edge or more
OnDirectedCycle(node) == node \in ReachedIn(Successors({node}), Cardinality(MapNodes))

\* C28: detect_circular_redirects returns an empty list exactly when the
\* adjacency map has no directed cycle, and every node on a directed cycle
\* of the map is in at least one of the returned cycles.
C28_CyclesFoundAtNodeLevel ==
    cpc = "done" =>
        /\ cycles = <<>> <=> ~\E n \in MapNodes : OnDirectedCycle(n)
        /\ \A n \in MapNodes :
              OnDirectedCycle(n) => \E k \in 1..Len(cycles) : InList(n, cycles[k])

\* node 3 is on the cycle 1 -> 3 -> 2 -> 1 only, and the traversal from 1
\* meets it after 2 was visited; the traversal from 3 reports it
C28_Witness ==
    /\ cpc = "done"
    /\ redirect_map.keys = <<1, 2, 3>>
    /\ redirect_map.tg[1] = <<2, 3>> /\ redirect_map.tg[2] = <<1>> /\ redirect_map.tg[3] = <<2>>
    /\ cycles[1] = <<1, 2, 1>>
    /\ \E k \in 1..Len(cycles) : InList(3, cycles[k])

\* a finished run on a map without cycle
C28_WitnessNoCycle ==
    /\ cpc = "done"
    /\ Len(redirect_map.keys) = 2
    /\ \A n \in Range(redirect_map.keys) : redirect_map.tg[n] # <<>>
    /\ cycles = <<>>

\* C30: every cycle of the cycles list is simple: apart from the closing
\* repeat of its first node no node occurs twice in it, and it has length 2
\* at least; a self-loop n -> n of a key n is reported as [n, n].
C30_CyclesAreSimple ==
    /\ \A k \in 1..Len(cycles) :
          LET c == cycles[k]
          IN  /\ Len(c) >= 2
              /\ c[Len(c)] = c[1]
              /\ \A i, j \in 1..(Len(c) - 1) : i # j => c[i] # c[j]
    /\ cpc = "done" =>
          \A n \in Range(redirect_map.keys) :
              InList(n, MapGet(redirect_map, n)) => InList(<<n, n>>, cycles)

\* a finished run that reported a self-loop and a cycle through three nodes
C30_Witness ==
    /\ cpc = "done"
    /\ \E k \in 1..Len(cycles) : Len(cycles[k]) = 2
    /\ \E k \in 1..Len(cycles) : Len(cycles[k]) = 4

(***************************************************************************)
(* The components of find_isolated_subgraphs (SpecAnalytics)               *)
(***************************************************************************)
\* find_isolated_subgraphs has returned
ComponentsFound == apc \in {"components", "done"}

\* C29: the components of find_isolated_subgraphs partition the node set of
\* a graph of build_graph: they are non-empty and pairwise disjoint, their
\* union is graph['nodes'], so that no component holds an identifier that is
\* no node, and two nodes are in one component exactly when a path of edges
\* taken as undirected connects them.
C29_ComponentsPartitionTheNodes ==
    ComponentsFound =>
        /\ \A i \in 1..Len(components) : components[i] # {}
        /\ \A i, j \in 1..Len(components) :
              i # j => components[i] \cap components[j] = {}
        /\ UNION Range(components) = agraph.nodes
        /\ \A u, v \in agraph.nodes :
              (\E i \in 1..Len(components) : u \in components[i] /\ v \in components[i])
                  <=> v \in LinkedWithin(agraph.edges, u, Len(agraph.edges))

====
